---- MODULE Spec2Model ----
(***************************************************************************)
(* A model of lazyfs-rs: the page cache engine (CustomCacheEngine), the    *)
(* pages and block offsets it manages, the per-file items and the Cache    *)
(* coordinator, together with the backing files sync writes to.            *)
(*                                                                         *)
(* Rust values are copied where the source copies them: get_page_ptr_write *)
(* returns `search_index.get(..).cloned()`, a deep copy of the boxed page, *)
(* so what a handler does to that page stays in the handler unless the     *)
(* handler stores the copy somewhere (update_owner_pages stores one in     *)
(* owner_ordered_pages_mapping).  Byte vectors are sequences; Rust index i *)
(* is TLA+ index i + 1.                                                    *)
(***************************************************************************)
EXTENDS Integers, Sequences, FiniteSets, TLC

(***************************************************************************)
(* Bounds of the model.                                                    *)
(***************************************************************************)
\* Config.io_block_size, Config.cache_nr_pages and the number of blocks a page
\* holds (cache_page_size / io_block_size), chosen small.
io_block_size == 2
SlotsPerPage == 2
cache_nr_pages == 2
\* Block ids of the Cache calls are 0..MaxBlock.
MaxBlock == 1
\* Largest Metadata.size set through update_content_metadata.
MaxSize == 1
\* Largest Metadata.nlinks set through update_content_metadata.
MaxNlinks == 2
\* Block ids of the entries drawn for sync_pages are 0..MaxSyncBlock.
MaxSyncBlock == 2
\* Longest sequence of Cache calls followed.
MaxCalls == 4

cache_page_size == SlotsPerPage * io_block_size

Inodes == {"a", "b"}
Paths == {"p1", "p2"}
Blocks == 0..MaxBlock
PageIds == 0..(cache_nr_pages - 1)
NoOwner == "none"

(***************************************************************************)
(* HashMap / Vec helpers.                                                  *)
(***************************************************************************)
EmptyMap == << >>

MapPut(f, k, v) == [x \in (DOMAIN f) \cup {k} |-> IF x = k THEN v ELSE f[x]]

MapDel(f, k) == [x \in (DOMAIN f) \ {k} |-> f[x]]

Last(s) == s[Len(s)]

PopBack(s) == SubSeq(s, 1, Len(s) - 1)

\* Vec::remove(i) / VecDeque::remove(i) with a 0-based index inside the range.
RemoveAt(s, i) == SubSeq(s, 1, i) \o SubSeq(s, i + 2, Len(s))

Zeros(n) == [i \in 1..n |-> 0]

Max(a, b) == IF a >= b THEN a ELSE b

\* The orders in which a HashMap over the keys S may be iterated.
Orders(S) == {s \in [1..Cardinality(S) -> S] : \A i, j \in 1..Cardinality(S) : s[i] = s[j] => i = j}

(***************************************************************************)
(* Backing files: a path either names no file or a file with its bytes.    *)
(***************************************************************************)
NoFile == [exists |-> FALSE, bytes |-> << >>]

FileOf(bytes) == [exists |-> TRUE, bytes |-> bytes]

\* seek(off) then write(buf): the bytes between the old end and off read as 0.
WriteAt(bytes, off, buf) ==
    [i \in 1..Max(Len(bytes), off + Len(buf)) |->
        IF i > off /\ i <= off + Len(buf) THEN buf[i - off]
        ELSE IF i <= Len(bytes) THEN bytes[i] ELSE 0]

\* File::set_len(size)
SetLen(bytes, size) == [i \in 1..size |-> IF i <= Len(bytes) THEN bytes[i] ELSE 0]

(***************************************************************************)
(* BlockOffsets and Page.                                                  *)
(***************************************************************************)
\* The free slot stack Page::new and Page::reset seed: 0, io_block_size, ...
SeedFreeIndexes == [i \in 1..SlotsPerPage |-> (i - 1) * io_block_size]

NewPage ==
    [is_dirty |-> FALSE,
     page_owner_id |-> NoOwner,
     free_block_indexes |-> SeedFreeIndexes,
     data |-> Zeros(cache_page_size),
     block_offset_mapping |-> EmptyMap,
     block_readable_to |-> EmptyMap]

is_page_owner(page, query) == page.page_owner_id = query

change_owner(page, new_owner) == [page EXCEPT !.page_owner_id = new_owner]

get_page_owner(page) == page.page_owner_id

has_free_space(page) == Len(page.free_block_indexes) > 0

contains_block(page, block_id) == block_id \in DOMAIN page.block_offset_mapping

get_block_offsets(page, block_id) ==
    IF block_id \in DOMAIN page.block_offset_mapping
    THEN page.block_offset_mapping[block_id]
    ELSE <<-1, -1>>

get_readable_to(page, block_id) ==
    IF block_id \in DOMAIN page.block_readable_to
    THEN page.block_readable_to[block_id]
    ELSE 0

is_page_dirty(page) == page.is_dirty

set_page_as_dirty(page, dirty) == [page EXCEPT !.is_dirty = dirty]

reset(page) ==
    [page EXCEPT !.free_block_indexes = SeedFreeIndexes,
                 !.block_offset_mapping = EmptyMap,
                 !.block_readable_to = EmptyMap,
                 !.is_dirty = FALSE,
                 !.data = Zeros(cache_page_size)]

\* BlockOffsets::make_readable_to through Page::make_block_readable_to: a plain
\* insert.
make_block_readable_to(page, block_id, max_offset) ==
    [page EXCEPT !.block_readable_to = MapPut(@, block_id, max_offset)]

\* Page::rewrite_offset_data: marks the page dirty and copies new_data to
\* data[start..]; an index past the end of data panics.
rewrite_offset_data(page, new_data, start) ==
    IF start + Len(new_data) > Len(page.data)
    THEN [page |-> page, out |-> "panic"]
    ELSE [page |-> [page EXCEPT !.is_dirty = TRUE,
                                !.data = [i \in 1..Len(page.data) |->
                                            IF i > start /\ i <= start + Len(new_data)
                                            THEN new_data[i - start] ELSE page.data[i]]],
          out |-> "ok"]

\* Page::update_block_data: out is "ok" (Ok(true)), "false" (Ok(false)), "err"
\* or "panic".
update_block_data(page, block_id, new_data, off_start) ==
    LET offs == get_block_offsets(page, block_id) IN
    IF offs[1] >= 0 /\ offs[2] > 0
    THEN IF Len(new_data) > io_block_size
         THEN [page |-> page, out |-> "err"]
         ELSE IF offs[1] + off_start + Len(new_data) = 0
              THEN [page |-> page, out |-> "panic"]
              ELSE rewrite_offset_data(page, new_data, offs[1] + off_start)
    ELSE [page |-> page, out |-> "false"]

\* Page::get_allocate_free_offset: pops the last free slot.
get_allocate_free_offset(page, block_id) ==
    IF Len(page.free_block_indexes) > 0
    THEN LET free_index == Last(page.free_block_indexes)
             allocated_offset == <<free_index, free_index + io_block_size - 1>>
         IN [page |-> [page EXCEPT !.free_block_indexes = PopBack(@),
                                   !.block_offset_mapping = MapPut(@, block_id, allocated_offset)],
             offs |-> allocated_offset,
             out |-> "ok"]
    ELSE [page |-> page, offs |-> <<-1, -1>>, out |-> "err"]

\* Page::get_block_data: the bytes data[off_min..read_to_max_index + 1) copied
\* to the front of buffer, or Err.
get_block_data(page, block_id, buffer, read_to_max_index) ==
    LET off_min == get_block_offsets(page, block_id)[1]
        off_max == read_to_max_index + 1
    IN IF off_max <= Len(page.data) /\ off_min < off_max /\ off_min >= 0
          /\ (off_max - off_min) <= Len(buffer)
       THEN [buffer |-> [i \in 1..Len(buffer) |->
                            IF i <= off_max - off_min THEN page.data[off_min + i] ELSE buffer[i]],
             out |-> "ok"]
       ELSE [buffer |-> buffer, out |-> "err"]

\* Page::sync_data: opens the file named by the page's owner id and writes every
\* block with a readable-to entry, a whole io_block_size slab each, at
\* block_id * io_block_size; the target offsets differ per block, so the
\* HashMap order does not show in the file.
RECURSIVE SyncDataLoop(_, _, _)
SyncDataLoop(page, bytes, todo) ==
    IF todo = {} THEN bytes
    ELSE LET block_id == CHOOSE b \in todo : TRUE
             offset_start == get_block_offsets(page, block_id)[1]
             slab == SubSeq(page.data, offset_start + 1, offset_start + io_block_size)
         IN SyncDataLoop(page, WriteAt(bytes, block_id * io_block_size, slab), todo \ {block_id})

sync_data(page, fs) ==
    LET path == page.page_owner_id IN
    IF path \notin DOMAIN fs \/ ~fs[path].exists
    THEN [page |-> page, fs |-> fs, out |-> "err"]
    ELSE LET todo == {b \in DOMAIN page.block_readable_to : contains_block(page, b)}
         IN [page |-> [page EXCEPT !.is_dirty = FALSE],
             fs |-> [fs EXCEPT ![path] = FileOf(SyncDataLoop(page, fs[path].bytes, todo))],
             out |-> "ok"]

\* Page::write_null_from: zeroes the Rust range
\* off_first + from_offset .. io_block_size.
write_null_from(page, block_id, from_offset) ==
    LET off_first == get_block_offsets(page, block_id)[1] IN
    [page EXCEPT !.data = [i \in 1..Len(page.data) |->
        IF i - 1 >= off_first + from_offset /\ i - 1 < io_block_size THEN 0 ELSE page.data[i]]]

\* Page::remove_block
remove_block(page, block_id) ==
    LET p1 == IF contains_block(page, block_id)
              THEN LET off_first == get_block_offsets(page, block_id)[1] IN
                   [page EXCEPT !.free_block_indexes = Append(@, off_first),
                                !.block_offset_mapping = MapDel(@, block_id),
                                !.block_readable_to = MapDel(@, block_id),
                                !.data = [i \in 1..Len(page.data) |->
                                    IF i - 1 >= off_first /\ i - 1 < off_first + io_block_size
                                    THEN 0 ELSE page.data[i]]]
              ELSE page
    IN IF DOMAIN p1.block_offset_mapping = {} THEN [p1 EXCEPT !.is_dirty = FALSE] ELSE p1

(***************************************************************************)
(* CustomCacheEngine.  An engine value is a record of the fields of        *)
(* CustomCacheEngineInner; an entry of owner_ordered_pages_mapping is      *)
(* <<page_id, page copy, offsets, synced flag>>.                           *)
(***************************************************************************)
\* CustomCacheEngineInner::new: every collection empty.
NewEngine ==
    [search_index |-> EmptyMap,
     free_pages |-> << >>,
     owner_pages_mapping |-> EmptyMap,
     owner_ordered_pages_mapping |-> EmptyMap,
     owner_free_pages_mapping |-> EmptyMap,
     lru_main_vector |-> << >>,
     page_order_mapping |-> EmptyMap]

\* Option<Box<Page>>: << >> is None, <<page>> is Some(copy of the page).
get_page_ptr_write(e, page_id) ==
    IF page_id \in DOMAIN e.search_index THEN <<e.search_index[page_id]>> ELSE << >>

\* VecDeque::remove(position as usize): nothing happens outside the range.
LruRemoveAt(lru, position) ==
    IF position >= 0 /\ position < Len(lru) THEN RemoveAt(lru, position) ELSE lru

\* The position page_order_mapping records for a visited page: the value at the
\* front of the queue right after the push, which is the page id itself.
FrontPosition(lru) == lru[1]

apply_lru_after_page_visitation_on_read(e, visited_page_id) ==
    LET lru1 == IF visited_page_id \in DOMAIN e.page_order_mapping
                THEN LruRemoveAt(e.lru_main_vector, e.page_order_mapping[visited_page_id])
                ELSE e.lru_main_vector
        lru2 == <<visited_page_id>> \o lru1
    IN [e EXCEPT !.lru_main_vector = lru2,
                 !.page_order_mapping = MapPut(@, visited_page_id, FrontPosition(lru2))]

apply_lru_after_page_visitation_on_write(e, visited_page_id) ==
    LET e1 == apply_lru_after_page_visitation_on_read(e, visited_page_id) IN
    IF Cardinality(DOMAIN e1.page_order_mapping) > cache_nr_pages
    THEN [e1 EXCEPT !.page_order_mapping = MapDel(@, Last(e1.lru_main_vector)),
                    !.lru_main_vector = PopBack(@)]
    ELSE e1

\* get_next_free_page: id is the page id or -1, page the Option of its copy, out
\* "ok", "err" (sync_data failed) or "panic" (Vec::remove out of range).
TakeOwnerFree(e, fs, owner_id) ==
    LET free_page == Last(e.owner_free_pages_mapping[owner_id])
        e1 == [e EXCEPT !.owner_free_pages_mapping[owner_id] = PopBack(@)]
    IN [e |-> e1, fs |-> fs, id |-> free_page, page |-> get_page_ptr_write(e1, free_page),
        out |-> "ok", from |-> "owner_free"]

TakeGlobalFree(e, fs) ==
    LET last_index == Last(e.free_pages)
        e1 == [e EXCEPT !.free_pages = PopBack(@)]
    IN [e |-> e1, fs |-> fs, id |-> last_index, page |-> get_page_ptr_write(e1, last_index),
        out |-> "ok", from |-> "free_pages"]

NoFreePage(e, fs) ==
    [e |-> e, fs |-> fs, id |-> -1, page |-> << >>, out |-> "ok", from |-> "none"]

EvictLruTail(e, fs) ==
    IF Len(e.lru_main_vector) = 0 THEN NoFreePage(e, fs)
    ELSE LET replace_place_id == Last(e.lru_main_vector) IN
    IF get_page_ptr_write(e, replace_place_id) = << >> THEN NoFreePage(e, fs)
    ELSE LET page_to_reset == get_page_ptr_write(e, replace_place_id)[1]
             old_owner == get_page_owner(page_to_reset)
             blocks == DOMAIN page_to_reset.block_readable_to
             e1 == IF old_owner \in DOMAIN e.owner_ordered_pages_mapping
                   THEN [e EXCEPT !.owner_ordered_pages_mapping[old_owner] =
                            [b \in (DOMAIN @) \ blocks |-> @[b]]]
                   ELSE e
             known == old_owner \in DOMAIN e1.owner_free_pages_mapping
         IN IF known /\ replace_place_id >= Len(e1.owner_free_pages_mapping[old_owner])
            THEN [e |-> e1, fs |-> fs, id |-> -1, page |-> << >>, out |-> "panic", from |-> "lru"]
            ELSE LET e2 == IF known
                           THEN [e1 EXCEPT !.owner_free_pages_mapping[old_owner] =
                                    RemoveAt(@, replace_place_id)]
                           ELSE e1
                     synced == IF is_page_dirty(page_to_reset)
                               THEN sync_data(page_to_reset, fs)
                               ELSE [page |-> page_to_reset, fs |-> fs, out |-> "ok"]
                 IN IF synced.out = "err"
                    THEN [e |-> e2, fs |-> fs, id |-> -1, page |-> << >>, out |-> "err", from |-> "lru"]
                    ELSE [e |-> e2, fs |-> synced.fs, id |-> replace_place_id,
                          page |-> <<reset(synced.page)>>, out |-> "ok", from |-> "lru"]

get_next_free_page(e, fs, owner_id, apply_lru_eviction) ==
    IF owner_id \in DOMAIN e.owner_free_pages_mapping
       /\ Len(e.owner_free_pages_mapping[owner_id]) > 0
    THEN TakeOwnerFree(e, fs, owner_id)
    ELSE IF Len(e.free_pages) > 0
    THEN TakeGlobalFree(e, fs)
    ELSE IF apply_lru_eviction
    THEN EvictLruTail(e, fs)
    ELSE NoFreePage(e, fs)

\* update_owner_pages: works on a fresh copy of the stored page.
update_owner_pages(e, new_owner, page_id, block_id, block_offsets_inside_page) ==
    IF get_page_ptr_write(e, page_id) = << >> THEN e
    ELSE
    LET page0 == get_page_ptr_write(e, page_id)[1]
        real_owner == get_page_owner(page0)
        moved == real_owner = NoOwner \/ real_owner # new_owner
        page == IF moved THEN change_owner(page0, new_owner) ELSE page0
        e1 == IF moved /\ real_owner \in DOMAIN e.owner_pages_mapping
              THEN LET opm == [e.owner_pages_mapping EXCEPT ![real_owner] = @ \ {page_id}]
                       oom == IF real_owner \in DOMAIN e.owner_ordered_pages_mapping
                              THEN [e.owner_ordered_pages_mapping EXCEPT
                                        ![real_owner] = MapDel(@, block_id)]
                              ELSE e.owner_ordered_pages_mapping
                   IN IF opm[real_owner] = {}
                      THEN [e EXCEPT !.owner_pages_mapping = MapDel(opm, real_owner),
                                     !.owner_free_pages_mapping = MapDel(@, real_owner),
                                     !.owner_ordered_pages_mapping = MapDel(oom, real_owner)]
                      ELSE [e EXCEPT !.owner_pages_mapping = opm,
                                     !.owner_ordered_pages_mapping = oom]
              ELSE e
        own == IF new_owner \in DOMAIN e1.owner_pages_mapping
               THEN e1.owner_pages_mapping[new_owner] ELSE {}
        ord == IF new_owner \in DOMAIN e1.owner_ordered_pages_mapping
               THEN e1.owner_ordered_pages_mapping[new_owner] ELSE EmptyMap
        fre == IF new_owner \in DOMAIN e1.owner_free_pages_mapping
               THEN <<e1.owner_free_pages_mapping[new_owner]>> ELSE << >>
        e2 == [e1 EXCEPT
                !.owner_pages_mapping = MapPut(@, new_owner, own \cup {page_id}),
                !.owner_ordered_pages_mapping =
                    MapPut(@, new_owner,
                           MapPut(ord, block_id, <<page_id, page, block_offsets_inside_page, FALSE>>))]
    IN IF has_free_space(page)
       THEN [e2 EXCEPT !.owner_free_pages_mapping =
                MapPut(@, new_owner, Append(IF fre = << >> THEN << >> ELSE fre[1], page_id))]
       ELSE e2

\* One iteration of allocate_blocks' loop for the entry block_id of
\* block_data_mapping, <<page_id, blk_data, offset_start>>: st is
\* [e, fs, res, out] so far.
RewriteInPlace(st, owner, block_id, page_id, blk_data, offset_start) ==
    LET page == get_page_ptr_write(st.e, page_id)[1]
        upd == update_block_data(page, block_id, blk_data, offset_start)
    IN IF upd.out \in {"err", "panic"} THEN [st EXCEPT !.out = upd.out]
       ELSE [st EXCEPT !.res = MapPut(@, block_id, page_id),
                       !.e = update_owner_pages(st.e, owner, page_id, block_id, <<0, 0>>)]

AllocateInFreePage(st, owner, block_id, blk_data, offset_start, is_write, apply_lru_eviction) ==
    LET nf == get_next_free_page(st.e, st.fs, owner, apply_lru_eviction) IN
    IF nf.out # "ok" THEN [st EXCEPT !.e = nf.e, !.out = nf.out]
    ELSE IF nf.id >= 0 /\ nf.page # << >>
    THEN LET got == get_allocate_free_offset(nf.page[1], block_id)
             upd == update_block_data(got.page, block_id, blk_data, offset_start)
             e1 == apply_lru_after_page_visitation_on_write(nf.e, nf.id)
         IN IF got.out = "err" THEN [st EXCEPT !.e = nf.e, !.fs = nf.fs, !.out = "err"]
            ELSE IF upd.out \in {"err", "panic"}
            THEN [st EXCEPT !.e = nf.e, !.fs = nf.fs, !.out = upd.out]
            ELSE [st EXCEPT !.e = update_owner_pages(e1, owner, nf.id, block_id, got.offs),
                            !.fs = nf.fs,
                            !.res = MapPut(@, block_id, nf.id)]
    ELSE [st EXCEPT !.e = nf.e, !.fs = nf.fs, !.res = MapPut(@, block_id, -1)]

AllocateOne(st, owner, block_id, entry, is_write, apply_lru_eviction) ==
    LET page_id == entry[1]
        inplace == /\ page_id >= 0
                   /\ get_page_ptr_write(st.e, page_id) # << >>
                   /\ is_page_owner(get_page_ptr_write(st.e, page_id)[1], owner)
                   /\ contains_block(get_page_ptr_write(st.e, page_id)[1], block_id)
    IN IF inplace
       THEN RewriteInPlace(st, owner, block_id, page_id, entry[2], entry[3])
       ELSE AllocateInFreePage(st, owner, block_id, entry[2], entry[3], is_write, apply_lru_eviction)

RECURSIVE AllocateLoop(_, _, _, _, _, _)
AllocateLoop(st, owner, block_data_mapping, order, is_write, apply_lru_eviction) ==
    IF order = << >> \/ st.out # "ok" THEN st
    ELSE AllocateLoop(AllocateOne(st, owner, order[1], block_data_mapping[order[1]],
                                  is_write, apply_lru_eviction),
                      owner, block_data_mapping, Tail(order), is_write, apply_lru_eviction)

\* allocate_blocks: block_data_mapping is iterated in the HashMap order `order`;
\* is_write is operation_type == OpWrite.
allocate_blocks(e, fs, owner, block_data_mapping, order, is_write, apply_lru_eviction) ==
    AllocateLoop([e |-> e, fs |-> fs, res |-> EmptyMap, out |-> "ok"],
                 owner, block_data_mapping, order, is_write, apply_lru_eviction)

\* get_blocks: block_pages maps a block to <<page_id, buffer, read_to_max_index>>;
\* the buffers filled are the engine's own copies.
GetOne(st, owner, block_id, entry, apply_lru_eviction) ==
    LET ptr == get_page_ptr_write(st.e, entry[1]) IN
    IF ptr # << >> /\ is_page_owner(ptr[1], owner) /\ contains_block(ptr[1], block_id)
    THEN IF get_block_data(ptr[1], block_id, entry[2], entry[3]).out = "err"
         THEN [st EXCEPT !.out = "err"]
         ELSE [st EXCEPT !.res = MapPut(@, block_id, TRUE),
                         !.e = IF apply_lru_eviction
                               THEN apply_lru_after_page_visitation_on_read(st.e, entry[1])
                               ELSE st.e]
    ELSE [st EXCEPT !.res = MapPut(@, block_id, FALSE)]

RECURSIVE GetLoop(_, _, _, _, _)
GetLoop(st, owner, block_pages, order, apply_lru_eviction) ==
    IF order = << >> \/ st.out # "ok" THEN st
    ELSE GetLoop(GetOne(st, owner, order[1], block_pages[order[1]], apply_lru_eviction),
                 owner, block_pages, Tail(order), apply_lru_eviction)

get_blocks(e, owner, block_pages, order, apply_lru_eviction) ==
    GetLoop([e |-> e, res |-> EmptyMap, out |-> "ok"], owner, block_pages, order, apply_lru_eviction)

\* CustomCacheEngine::is_block_cached
engine_is_block_cached(e, owner, page_id, block_id) ==
    LET ptr == get_page_ptr_write(e, page_id) IN
    ptr # << >> /\ is_page_owner(ptr[1], owner) /\ contains_block(ptr[1], block_id)

\* make_block_readable_to_offset: the page it updates is the copy
\* get_page_ptr_write hands out, dropped at the end of the call.
make_block_readable_to_offset(e, cid, page_id, block_id, offset) ==
    LET ptr == get_page_ptr_write(e, page_id)
        page == IF ptr # << >> /\ is_page_owner(ptr[1], cid)
                THEN <<make_block_readable_to(ptr[1], block_id, offset)>>
                ELSE ptr
    IN e

\* Dropping a page from the LRU structures, as remove_cached_blocks and
\* truncate_cached_blocks do.
LruDrop(e, page_id) ==
    IF page_id \in DOMAIN e.page_order_mapping
    THEN [e EXCEPT !.page_order_mapping = MapDel(@, page_id),
                   !.lru_main_vector = LruRemoveAt(@, e.page_order_mapping[page_id])]
    ELSE e

RECURSIVE RemoveLoop(_, _, _)
RemoveLoop(e, order, apply_lru_eviction) ==
    IF order = << >> THEN e
    ELSE LET page_id == order[1]
             e1 == [e EXCEPT !.free_pages = Append(@, page_id)]
             e2 == IF apply_lru_eviction THEN LruDrop(e1, page_id) ELSE e1
         IN RemoveLoop(e2, Tail(order), apply_lru_eviction)

\* remove_cached_blocks: order is the HashSet order of the owner's page ids
\* (<< >> when the owner has none).  The reset and the change of owner are made
\* on page copies.
remove_cached_blocks(e, owner, order, apply_lru_eviction) ==
    LET e1 == [e EXCEPT !.owner_free_pages_mapping = MapDel(@, owner)] IN
    IF owner \in DOMAIN e1.owner_pages_mapping
    THEN LET e2 == [e1 EXCEPT !.owner_pages_mapping = MapDel(@, owner)]
             e3 == RemoveLoop(e2, order, apply_lru_eviction)
         IN [e3 EXCEPT !.owner_ordered_pages_mapping = MapDel(@, owner)]
    ELSE e1

OwnerPageOrders(e, owner) ==
    IF owner \in DOMAIN e.owner_pages_mapping
    THEN Orders(e.owner_pages_mapping[owner]) ELSE {<< >>}

\* rename_owner_pages: res is the bool returned, out "panic" when an unwrap
\* finds no entry.
rename_owner_pages(e, old_owner, new_owner) ==
    IF old_owner \notin DOMAIN e.owner_pages_mapping
    THEN [e |-> e, res |-> FALSE, out |-> "ok"]
    ELSE
    IF old_owner \notin DOMAIN e.owner_free_pages_mapping
    THEN [e |-> [e EXCEPT !.owner_pages_mapping = MapDel(@, old_owner)],
          res |-> FALSE, out |-> "panic"]
    ELSE
    IF old_owner \notin DOMAIN e.owner_ordered_pages_mapping
    THEN [e |-> [e EXCEPT !.owner_pages_mapping = MapDel(@, old_owner),
                          !.owner_free_pages_mapping = MapDel(@, old_owner)],
          res |-> FALSE, out |-> "panic"]
    ELSE [e |-> [e EXCEPT
                    !.owner_pages_mapping =
                        MapPut(MapDel(@, old_owner), new_owner, e.owner_pages_mapping[old_owner]),
                    !.owner_free_pages_mapping =
                        MapPut(MapDel(@, old_owner), new_owner, e.owner_free_pages_mapping[old_owner]),
                    !.owner_ordered_pages_mapping =
                        MapPut(MapDel(@, old_owner), new_owner, e.owner_ordered_pages_mapping[old_owner])],
          res |-> TRUE, out |-> "ok"]

\* One entry of truncate_cached_blocks' loop.
TruncateOne(e, owner, block_id, page_id, from_block_id, index_inside_block, apply_lru_eviction) ==
    LET ptr == get_page_ptr_write(e, page_id) IN
    IF ptr = << >> \/ ~is_page_owner(ptr[1], owner) THEN e
    ELSE IF block_id = from_block_id /\ index_inside_block > 0 THEN e
    ELSE LET page == remove_block(ptr[1], block_id)
             e1 == IF owner \in DOMAIN e.owner_pages_mapping
                   THEN [e EXCEPT !.owner_pages_mapping[owner] = @ \ {page_id}] ELSE e
             e2 == IF owner \in DOMAIN e1.owner_ordered_pages_mapping
                   THEN [e1 EXCEPT !.owner_ordered_pages_mapping[owner] = MapDel(@, block_id)]
                   ELSE e1
         IN IF ~is_page_dirty(page)
            THEN LET e3 == [e2 EXCEPT !.free_pages = Append(@, page_id)] IN
                 IF apply_lru_eviction THEN LruDrop(e3, page_id) ELSE e3
            ELSE e2

RECURSIVE TruncateLoop(_, _, _, _, _, _, _)
TruncateLoop(e, owner, blocks_to_remove, order, from_block_id, index_inside_block, apply_lru_eviction) ==
    IF order = << >> THEN e
    ELSE TruncateLoop(TruncateOne(e, owner, order[1], blocks_to_remove[order[1]],
                                  from_block_id, index_inside_block, apply_lru_eviction),
                      owner, blocks_to_remove, Tail(order), from_block_id, index_inside_block,
                      apply_lru_eviction)

truncate_cached_blocks(e, owner, blocks_to_remove, order, from_block_id, index_inside_block, lru) ==
    TruncateLoop(e, owner, blocks_to_remove, order, from_block_id, index_inside_block, lru)

\* get_dirty_blocks_info, as a set (the Vec is in HashMap order).
get_dirty_blocks_info(e, owner) ==
    IF owner \in DOMAIN e.owner_ordered_pages_mapping
    THEN LET ord == e.owner_ordered_pages_mapping[owner] IN
         {<<b, <<0, get_readable_to(ord[b][2], b)>>, ord[b][1]>> : b \in {x \in DOMAIN ord : ~ord[x][4]}}
    ELSE {}

(***************************************************************************)
(* sync_pages.  order1 is the HashMap order of owner_ordered[owner]: the   *)
(* entry visited at enumerate index i is the block order1[i + 1].  The     *)
(* working map new_iterate_blocks is keyed by that index; order2 is its    *)
(* own HashMap order.  A chunk entry is <<page_id, page, offsets, flag>>.  *)
(***************************************************************************)
\* The enumerate indexes whose page copy is dirty.
DirtyIndexes(ord, order1) == {i \in 0..(Len(order1) - 1) : is_page_dirty(ord[order1[i + 1]][2])}

\* The run buffer the inner loop builds from page_chunk[0..page_streak); "panic"
\* when a slice is out of range.
RECURSIVE StreakBuffer(_, _, _, _)
StreakBuffer(page_chunk, current_block_id, page_streak, p_id) ==
    IF p_id >= page_streak THEN [buf |-> << >>, out |-> "ok"]
    ELSE LET streak_block == current_block_id - page_streak + p_id + 1
             page_ptr == page_chunk[p_id + 1][2]
             lo == page_chunk[p_id + 1][3][1]
             data == SubSeq(page_ptr.data, lo + 1, Len(page_ptr.data))
             n == IF p_id = page_streak - 1
                  THEN get_readable_to(page_ptr, streak_block) + 1
                  ELSE io_block_size
             rest == StreakBuffer(page_chunk, current_block_id, page_streak, p_id + 1)
         IN IF lo > Len(page_ptr.data) \/ n < 0 \/ n > Len(data)
            THEN [buf |-> << >>, out |-> "panic"]
            ELSE IF rest.out # "ok" THEN rest
            ELSE [buf |-> SubSeq(data, 1, n) \o rest.buf, out |-> "ok"]

\* The loop over new_iterate_blocks in the order order2; st is
\* [bytes, page_streak, page_chunk, writes, out], writes the <<offset, buffer>>
\* pairs written so far.
SyncStep(st, nib, current_block_id) ==
    IF (current_block_id + 1) \notin DOMAIN nib THEN st
    ELSE LET next_block_id == nib[current_block_id + 1][1]
             chunk == Append(st.page_chunk, nib[current_block_id])
             streak == st.page_streak + 1
         IN IF current_block_id # Cardinality(DOMAIN nib) - 1
               /\ current_block_id = next_block_id - 1
            THEN [st EXCEPT !.page_streak = streak, !.page_chunk = chunk]
            ELSE LET built == StreakBuffer(chunk, current_block_id, streak, 0)
                     page_streak_last_offset == (current_block_id - streak + 1) * io_block_size
                 IN IF built.out # "ok" THEN [st EXCEPT !.out = built.out]
                    ELSE IF page_streak_last_offset < 0 THEN [st EXCEPT !.out = "err"]
                    ELSE [st EXCEPT
                            !.bytes = WriteAt(@, page_streak_last_offset, built.buf),
                            !.writes = Append(@, <<page_streak_last_offset, built.buf>>),
                            !.page_streak = 0,
                            !.page_chunk = << >>]

RECURSIVE SyncLoop(_, _, _)
SyncLoop(st, nib, order2) ==
    IF order2 = << >> \/ st.out # "ok" THEN st
    ELSE SyncLoop(SyncStep(st, nib, order2[1]), nib, Tail(order2))

\* sync_pages(owner, size, orig_path): the result carries the engine, the files,
\* the writes issued and the blocks collected as dirty, in visiting order.
sync_pages(e, fs, owner, size, orig_path, order1, order2) ==
    IF ~fs[orig_path].exists
    THEN [e |-> e, fs |-> fs, writes |-> << >>, visited |-> << >>, out |-> "err"]
    ELSE IF owner \notin DOMAIN e.owner_ordered_pages_mapping
    THEN [e |-> e,
          fs |-> [fs EXCEPT ![orig_path] = FileOf(SetLen(fs[orig_path].bytes, size))],
          writes |-> << >>, visited |-> << >>, out |-> "ok"]
    ELSE
    LET ord == e.owner_ordered_pages_mapping[owner]
        dirty == DirtyIndexes(ord, order1)
        nib == [i \in dirty |-> ord[order1[i + 1]]]
        cleared == [b \in DOMAIN ord |->
                       IF is_page_dirty(ord[b][2])
                       THEN <<ord[b][1], set_page_as_dirty(ord[b][2], FALSE), ord[b][3], ord[b][4]>>
                       ELSE ord[b]]
        e1 == [e EXCEPT !.owner_ordered_pages_mapping[owner] = cleared]
        visited == [k \in 1..Cardinality(dirty) |->
                       order1[1 + CHOOSE i \in dirty : Cardinality({j \in dirty : j < i}) = k - 1]]
    IN IF dirty = {}
       THEN [e |-> e1, fs |-> fs, writes |-> << >>, visited |-> << >>, out |-> "panic"]
       ELSE LET st0 == [bytes |-> fs[orig_path].bytes,
                        page_streak |-> 0,
                        page_chunk |-> [k \in 1..Len(order2) |-> nib[order2[k]]],
                        writes |-> << >>,
                        out |-> "ok"]
                st == SyncLoop(st0, nib, order2)
            IN [e |-> e1,
                fs |-> [fs EXCEPT ![orig_path] =
                          FileOf(IF st.out = "ok" THEN SetLen(st.bytes, size) ELSE st.bytes)],
                writes |-> st.writes, visited |-> visited, out |-> st.out]

(***************************************************************************)
(* Item, ItemData, BlockInfo, Metadata.                                    *)
(***************************************************************************)
\* Item::default(): Metadata::default() has nlinks 1 and size 0.
DefaultItem ==
    [data |-> EmptyMap, metadata |-> [nlinks |-> 1, size |-> 0], is_synced |-> TRUE]

\* BlockInfo::default()
DefaultBlockInfo == [readable_offset |-> <<0, 0>>, page_index_number |-> -1]

get_page_id(data, blk_id) ==
    IF blk_id \in DOMAIN data THEN data[blk_id].page_index_number ELSE -1

has_block(data, block_id) == block_id \in DOMAIN data

\* Option<(i32, i32)>: << >> is None.
item_get_readable_offsets(data, block_id) ==
    IF block_id \in DOMAIN data THEN <<data[block_id].readable_offset>> ELSE << >>

\* BlockInfo::make_readable_to
block_info_make_readable_to(info, to) ==
    IF to > info.readable_offset[2]
    THEN [info EXCEPT !.readable_offset = <<@[1], to>>]
    ELSE info

\* ItemData::set_block_page_id; the value it returns is the stored
\* readable_offset.1.
set_block_page_id(data, block_id, allocated_page, readable_from, readable_to) ==
    LET block == IF block_id \in DOMAIN data THEN data[block_id] ELSE DefaultBlockInfo IN
    MapPut(data, block_id,
           block_info_make_readable_to([block EXCEPT !.page_index_number = allocated_page],
                                       readable_to))

item_remove_block(data, block_id) == MapDel(data, block_id)

\* BlockInfo::truncate_readable_to
truncate_readable_to(info, to) == [info EXCEPT !.readable_offset = <<@[1], to>>]

\* truncate_blocks_after that drops the boundary block whatever the index.
TruncateDropsBoundary(data, blk_id, blk_byte_index) ==
    [data |-> [id \in {x \in DOMAIN data : x < blk_id} |-> data[id]],
     res |-> [id \in {x \in DOMAIN data : x >= blk_id} |-> data[id].page_index_number]]

\* ItemData::truncate_blocks_after: data is the item's block map after the
\* call, res the map returned.
truncate_blocks_after(data, blk_id, blk_byte_index) ==
    LET ids_to_remove == {id \in DOMAIN data :
                            id >= blk_id /\ (id > blk_id \/ blk_byte_index = 0)}
    IN [data |-> [id \in (DOMAIN data) \ ids_to_remove |->
                    IF id = blk_id
                    THEN truncate_readable_to(data[id], blk_byte_index - 1)
                    ELSE data[id]],
        res |-> [id \in {x \in DOMAIN data : x >= blk_id} |-> data[id].page_index_number]]

\* Item::update_metadata for the fields "size" and "nlinks".
update_metadata(item, new_meta, values_to_update) ==
    [item EXCEPT !.metadata =
        [nlinks |-> IF "nlinks" \in values_to_update THEN new_meta.nlinks ELSE @.nlinks,
         size |-> IF "size" \in values_to_update THEN new_meta.size ELSE @.size]]

(***************************************************************************)
(* The state: the Cache (config, file_inode_mapping, contents, engine),    *)
(* the backing files, and the outcome of the calls made so far.            *)
(***************************************************************************)
VARIABLES
    config,               \* Config: [apply_lru_eviction]
    engine,               \* CustomCacheEngineInner
    file_inode_mapping,   \* CacheInner.file_inode_mapping: path -> inode
    contents,             \* CacheInner.contents: inode -> Item
    files,                \* the backing files, by path
    status,               \* "running", or how the calling thread ended
    call,                 \* the last call: [op, cid, arg, res, out]
    ncalls,               \* the number of calls made
    threads,              \* per thread: the call it is in and the guards it holds
    faults                \* LazyFS.faults: the configured faults, by id

vars == <<config, engine, file_inode_mapping, contents, files, status, call, ncalls, threads, faults>>

\* The threads that call the Cache, and a thread outside any call.
Threads == {"t1", "t2"}

IdleThread == [op |-> "idle", pc |-> 1, held |-> << >>, state |-> "run"]

IdleThreads == [t \in Threads |-> IdleThread]

NoCall == [op |-> "none", cid |-> "", arg |-> << >>, res |-> << >>, out |-> "ok"]

\* Locking a std::sync::RwLock or Mutex the calling thread already holds (a read
\* under its own write guard, a write under its own read guard, a second lock
\* of a Mutex) never returns: the thread blocks for ever or panics.
Relock == {"deadlock", "panic"}

AllocateOperationType == {"OpRead", "OpWrite", "OpPassthrough"}

\* The byte strings written: the first n of the bytes 1, 2, ..., for n from
\* one to io_block_size.
Datas == {[i \in 1..n |-> i] : n \in 1..io_block_size}

\* The block sets of one put or get: one block, or two neighbours.
BlockSets == {{b} : b \in Blocks} \cup {{b, b + 1} : b \in 0..(MaxBlock - 1)}

\* The backing store at the start: an empty file at the first path, no file at
\* the second.
InitialFiles == [p \in Paths |-> IF p = "p1" THEN FileOf(<< >>) ELSE NoFile]

\* Cache::new over CustomCacheEngine::new: nothing cached, no page in the engine.
Init ==
    /\ config \in [apply_lru_eviction : BOOLEAN]
    /\ engine = NewEngine
    /\ file_inode_mapping = EmptyMap
    /\ contents = EmptyMap
    /\ files = InitialFiles
    /\ status = "running"
    /\ call = NoCall
    /\ ncalls = 0
    /\ threads = IdleThreads
    /\ faults = EmptyMap

\* A call can be made while the calling thread lives; MaxCalls of them are
\* followed.
Running == status = "running" /\ ncalls < MaxCalls

Returns(op, cid, arg, res, out) ==
    /\ ncalls' = ncalls + 1
    /\ call' = [op |-> op, cid |-> cid, arg |-> arg, res |-> res, out |-> out]
    /\ status' = IF out \in {"ok", "err"} THEN "running" ELSE out
    /\ UNCHANGED <<threads, faults>>

\* Cache::insert_item
InsertItem(cid) ==
    /\ Running
    /\ contents' = MapPut(contents, cid, DefaultItem)
    /\ Returns("insert_item", cid, << >>, << >>, "ok")
    /\ UNCHANGED <<config, engine, file_inode_mapping, files>>

\* Cache::insert_item_if_not_exists: the bool it returns is contains_key.
insert_item_if_not_exists(ct, cid) ==
    [contents |-> IF cid \in DOMAIN ct THEN ct ELSE MapPut(ct, cid, DefaultItem),
     is_new |-> cid \in DOMAIN ct]

\* Cache::remove_item
RemoveItem(cid) ==
    /\ Running
    /\ contents' = MapDel(contents, cid)
    /\ Returns("remove_item", cid, << >>, << >>, "ok")
    /\ UNCHANGED <<config, engine, file_inode_mapping, files>>

\* Cache::update_content_metadata
UpdateContentMetadata(cid, metadata, values_to_update) ==
    /\ Running
    /\ contents' = IF cid \in DOMAIN contents
                   THEN [contents EXCEPT ![cid] = update_metadata(@, metadata, values_to_update)]
                   ELSE contents
    /\ Returns("update_content_metadata", cid, << >>, cid \in DOMAIN contents, "ok")
    /\ UNCHANGED <<config, engine, file_inode_mapping, files>>

\* Cache::put_data_blocks.  blocks maps a block to <<data, start, readable_to>>;
\* order is the HashMap order of the engine's loop.  PutRecord is the loop over
\* the engine's answer al for the item: a block given a page is recorded with
\* its page, a refused block is forgotten.
\* PutRecord without the update of is_synced.
PutRecordKeepsSynced(item, blocks, res) ==
    LET given == {b \in DOMAIN res : res[b] >= 0}
        refused == {b \in DOMAIN res : res[b] < 0}
    IN [data |-> [b \in ((DOMAIN item.data) \ refused) \cup given |->
                    IF b \in given
                    THEN set_block_page_id(item.data, b, res[b], 0, blocks[b][3])[b]
                    ELSE item.data[b]],
        metadata |-> item.metadata,
        is_synced |-> item.is_synced]

PutRecord(item, blocks, res) ==
    LET given == {b \in DOMAIN res : res[b] >= 0}
        refused == {b \in DOMAIN res : res[b] < 0}
    IN [data |-> [b \in ((DOMAIN item.data) \ refused) \cup given |->
                    IF b \in given
                    THEN set_block_page_id(item.data, b, res[b], 0, blocks[b][3])[b]
                    ELSE item.data[b]],
        metadata |-> item.metadata,
        is_synced |-> IF given # {} THEN FALSE ELSE item.is_synced]

PutAnswer(ct, cid, blocks, al) ==
    IF al.out # "ok"
    THEN [contents |-> ct, e |-> al.e, fs |-> al.fs, res |-> EmptyMap, out |-> al.out]
    \* make_block_readable_to_offset changes a page copy: the engine stays al.e
    ELSE [contents |-> MapPut(ct, cid, PutRecord(ct[cid], blocks, al.res)),
          e |-> al.e, fs |-> al.fs,
          res |-> [b \in DOMAIN al.res |-> al.res[b] >= 0],
          out |-> "ok"]

put_data_blocks(ct, e, fs, cid, blocks, order, operation_type, apply_lru_eviction) ==
    LET ins == insert_item_if_not_exists(ct, cid)
        put_mapping == [b \in DOMAIN blocks |->
                          <<IF ins.is_new THEN -1 ELSE get_page_id(ins.contents[cid].data, b),
                            blocks[b][1], blocks[b][2]>>]
    IN PutAnswer(ins.contents, cid, blocks,
                 allocate_blocks(e, fs, cid, put_mapping, order, operation_type = "OpWrite",
                                 apply_lru_eviction))

PutDone(cid, arg, r) ==
    /\ contents' = r.contents
    /\ engine' = r.e
    /\ files' = r.fs
    /\ Returns("put_data_blocks", cid, arg, r.res, r.out)

PutDataBlocks(cid, blocks, operation_type) ==
    /\ Running
    /\ \E order \in Orders(DOMAIN blocks) :
         PutDone(cid, [blocks |-> blocks, op |-> operation_type],
                 put_data_blocks(contents, engine, files, cid, blocks, order, operation_type,
                                 config.apply_lru_eviction))
    /\ UNCHANGED <<config, file_inode_mapping>>

\* Cache::get_data_blocks.  blocks maps a block to the caller's buffer, a
\* &[u8] the handler copies (to_vec) and never writes.  With an empty answer
\* from the engine the loop does not run; otherwise its first round, for block
\* first, asks get_readable_offsets for engine.read() under the handler's own
\* engine.write() guard.
get_data_blocks(ct, e, cid, blocks, order, first, apply_lru_eviction) ==
    IF cid \notin DOMAIN ct
    THEN [contents |-> ct, e |-> e, res |-> EmptyMap, out |-> {"ok"}]
    ELSE LET item == ct[cid]
             mapping == [b \in {x \in DOMAIN blocks : has_block(item.data, x)} |->
                           <<get_page_id(item.data, b), blocks[b], io_block_size - 1>>]
             gb == get_blocks(e, cid, mapping, order, apply_lru_eviction)
         IN IF gb.out # "ok"
            THEN [contents |-> ct, e |-> gb.e, res |-> EmptyMap, out |-> {gb.out}]
            ELSE IF DOMAIN gb.res = {}
            THEN [contents |-> ct, e |-> gb.e, res |-> EmptyMap, out |-> {"ok"}]
            ELSE [contents |-> [ct EXCEPT ![cid].data =
                                  IF gb.res[first] THEN @ ELSE item_remove_block(@, first)],
                  e |-> gb.e, res |-> EmptyMap, out |-> Relock]

\* The requested blocks the item holds.
HeldBlocks(ct, cid, blocks) ==
    IF cid \in DOMAIN ct THEN {x \in DOMAIN blocks : has_block(ct[cid].data, x)} ELSE {}

\* What the caller has after the call: the answer and its own buffers.
GetDone(cid, blocks, r) ==
    /\ contents' = r.contents
    /\ engine' = r.e
    /\ \E out \in r.out :
         Returns("get_data_blocks", cid, blocks, [found |-> r.res, buffers |-> blocks], out)

GetDataBlocks(cid, blocks) ==
    /\ Running
    /\ \E order \in Orders(HeldBlocks(contents, cid, blocks)) :
       \E first \in HeldBlocks(contents, cid, blocks) \cup {-1} :
         /\ (first = -1) = (HeldBlocks(contents, cid, blocks) = {})
         /\ GetDone(cid, blocks,
                    get_data_blocks(contents, engine, cid, blocks, order, first,
                                    config.apply_lru_eviction))
    /\ UNCHANGED <<config, file_inode_mapping, files>>

\* Cache::is_block_cached
IsBlockCached(cid, block_id) ==
    /\ Running
    /\ Returns("is_block_cached", cid, block_id,
               IF cid \in DOMAIN contents
               THEN engine_is_block_cached(engine, cid,
                                           get_page_id(contents[cid].data, block_id), block_id)
               ELSE FALSE,
               "ok")
    /\ UNCHANGED <<config, engine, file_inode_mapping, contents, files>>

\* Cache::remove_cached_item_inner.  before_nlinks - 1 is u32 arithmetic: at
\* zero it panics with overflow checks and wraps without them, and the item
\* that would carry the wrapped count is removed in the same call.
remove_cached_item_inner(fim, ct, owner, path, is_from_cache) ==
    LET before_nlinks == ct[owner].metadata.nlinks
        keeps == ~is_from_cache /\ before_nlinks > 1
        ct1 == [ct EXCEPT ![owner] =
                  update_metadata(@, [nlinks |-> Max(before_nlinks - 1, 1),
                                      size |-> @.metadata.size], {"nlinks"})]
    IN [fim |-> MapDel(fim, path),
        contents |-> IF keeps THEN ct1 ELSE MapDel(ct, owner),
        res |-> ~keeps,
        out |-> IF before_nlinks = 0 THEN {"ok", "panic"} ELSE {"ok"}]

RemoveDone(owner, arg, r) ==
    \E out \in r.out : \E order \in OwnerPageOrders(engine, owner) :
      IF out = "panic"
      THEN /\ file_inode_mapping' = r.fim
           /\ UNCHANGED <<engine, contents>>
           /\ Returns("remove_cached_item", owner, arg, << >>, "panic")
      ELSE /\ file_inode_mapping' = r.fim
           /\ contents' = r.contents
           /\ engine' = remove_cached_blocks(engine, owner, order, config.apply_lru_eviction)
           /\ Returns("remove_cached_item", owner, arg, TRUE, "ok")

\* Cache::remove_cached_item: whatever the inner call answers, the engine
\* drops the owner's blocks and the handler answers true.
RemoveCachedItem(owner, path, is_from_cache) ==
    /\ Running
    /\ IF owner \notin DOMAIN contents
       THEN /\ Returns("remove_cached_item", owner,
                       [path |-> path, is_from_cache |-> is_from_cache], FALSE, "ok")
            /\ UNCHANGED <<engine, file_inode_mapping, contents>>
       ELSE RemoveDone(owner, [path |-> path, is_from_cache |-> is_from_cache],
                       remove_cached_item_inner(file_inode_mapping, contents, owner, path,
                                                is_from_cache))
    /\ UNCHANGED <<config, files>>

\* Cache::sync_owner: has_content_cached asks for inner.read() under the
\* handler's own inner.write() guard, before anything else is done.
SyncOwner(owner, only_sync_data, orig_path) ==
    /\ Running
    /\ \E out \in Relock :
         Returns("sync_owner", owner, [only_sync_data |-> only_sync_data, path |-> orig_path],
                 << >>, out)
    /\ UNCHANGED <<config, engine, file_inode_mapping, contents, files>>

AfterSyncPages(sp) ==
    [e |-> sp.e, fs |-> sp.fs, writes |-> sp.writes,
     out |-> IF sp.out = "ok" THEN Relock ELSE {sp.out}]

\* Cache::sync_owner_inner: after sync_pages it asks for contents.write()
\* under its own contents.read() guard.
sync_owner_inner(ct, e, fs, owner, orig_path, order1, order2) ==
    IF owner \notin DOMAIN ct
    THEN [e |-> e, fs |-> fs, writes |-> << >>, out |-> {"err"}]
    ELSE AfterSyncPages(sync_pages(e, fs, owner, ct[owner].metadata.size, orig_path,
                                   order1, order2))

OwnerOrdered(e, owner) ==
    IF owner \in DOMAIN e.owner_ordered_pages_mapping
    THEN e.owner_ordered_pages_mapping[owner] ELSE EmptyMap

CheckpointDone(owner, path, r) ==
    /\ engine' = r.e
    /\ files' = r.fs
    /\ \E out \in r.out : Returns("full_checkpoint", owner, path, r.writes, out)

\* Cache::full_checkpoint: the first (path, owner) of the mapping's HashMap
\* order either fails or never returns, so no second one is reached.
FullCheckpoint ==
    /\ Running
    /\ IF DOMAIN file_inode_mapping = {}
       THEN /\ Returns("full_checkpoint", "", << >>, << >>, "ok")
            /\ UNCHANGED <<engine, files>>
       ELSE \E path \in DOMAIN file_inode_mapping :
              LET owner == file_inode_mapping[path]
                  ord == OwnerOrdered(engine, owner)
              IN \E order1 \in Orders(DOMAIN ord) :
                 \E order2 \in Orders(DirtyIndexes(ord, order1)) :
                   CheckpointDone(owner, path,
                                  sync_owner_inner(contents, engine, files, owner, path,
                                                   order1, order2))
    /\ UNCHANGED <<config, file_inode_mapping, contents>>

\* Cache::insert_inode_mapping: with increase, get_content_metadata asks for
\* inner.read() under the handler's own inner.write() guard, after the insert.
InsertInodeMapping(path, inode, increase) ==
    /\ Running
    /\ file_inode_mapping' = MapPut(file_inode_mapping, path, inode)
    /\ IF increase
       THEN \E out \in Relock :
              Returns("insert_inode_mapping", inode, [path |-> path, increase |-> TRUE],
                      << >>, out)
       ELSE Returns("insert_inode_mapping", inode, [path |-> path, increase |-> FALSE],
                    << >>, "ok")
    /\ UNCHANGED <<config, engine, contents, files>>

\* Cache::rename_item: for a mapped old_cid the second file_inode_mapping.write()
\* is asked for while the guard of the first is still alive.
RenameItem(old_cid, new_cid) ==
    /\ Running
    /\ IF old_cid \in DOMAIN file_inode_mapping
       THEN \E out \in Relock :
              Returns("rename_item", "", <<old_cid, new_cid>>, << >>, out)
       ELSE Returns("rename_item", "", <<old_cid, new_cid>>, TRUE, "ok")
    /\ UNCHANGED <<config, engine, file_inode_mapping, contents, files>>

RECURSIVE ClearLoop(_, _, _)
ClearLoop(e, items, apply_lru_eviction) ==
    IF items = << >> THEN {e}
    ELSE UNION {ClearLoop(remove_cached_blocks(e, items[1], order, apply_lru_eviction),
                          Tail(items), apply_lru_eviction) :
                order \in OwnerPageOrders(e, items[1])}

\* Cache::clear_cache: with a non-empty mapping, remove_cached_item_inner asks
\* for file_inode_mapping.write() under the handler's own read guard.
ClearCache ==
    /\ Running
    /\ IF DOMAIN file_inode_mapping # {}
       THEN /\ \E out \in Relock : Returns("clear_cache", "", << >>, << >>, out)
            /\ UNCHANGED <<engine, contents>>
       ELSE /\ \E items \in Orders(DOMAIN contents) :
                 engine' \in ClearLoop(engine, items, config.apply_lru_eviction)
            /\ contents' = EmptyMap
            /\ Returns("clear_cache", "", << >>, << >>, "ok")
    /\ UNCHANGED <<config, file_inode_mapping, files>>

\* Cache::report_unsynced_data
ReportUnsyncedData ==
    /\ Running
    /\ Returns("report_unsynced_data", "", << >>,
               {<<owner, get_dirty_blocks_info(engine, owner)>> :
                  owner \in {o \in DOMAIN contents : ~contents[o].is_synced}},
               "ok")
    /\ UNCHANGED <<config, engine, file_inode_mapping, contents, files>>

\* The Metadata values passed to update_content_metadata: a size with the
\* default nlinks, or another nlinks with the default size.
Metadatas == [nlinks : {1}, size : 0..MaxSize] \cup [nlinks : 0..MaxNlinks, size : {0}]

\* The blocks of one put: the same bytes for each block, written from offset 0
\* and readable to their last byte.
PutArgs == {[b \in bs |-> <<d, 0, Len(d) - 1>>] : bs \in BlockSets, d \in Datas}

GetArgs == UNION {[bs -> {Zeros(io_block_size)}] : bs \in BlockSets}

Next ==
    \/ \E cid \in Inodes : InsertItem(cid)
    \/ \E cid \in Inodes : RemoveItem(cid)
    \/ \E cid \in Inodes, m \in Metadatas :
         UpdateContentMetadata(cid, m, IF m.nlinks = 1 THEN {"size"} ELSE {"nlinks"})
    \/ \E cid \in Inodes, blocks \in PutArgs, t \in AllocateOperationType :
         PutDataBlocks(cid, blocks, t)
    \/ \E cid \in Inodes, blocks \in GetArgs : GetDataBlocks(cid, blocks)
    \/ \E cid \in Inodes, b \in Blocks : IsBlockCached(cid, b)
    \/ \E cid \in Inodes, path \in Paths, c \in BOOLEAN : RemoveCachedItem(cid, path, c)
    \/ \E cid \in Inodes, path \in Paths, d \in BOOLEAN : SyncOwner(cid, d, path)
    \/ FullCheckpoint
    \/ \E path \in Paths, cid \in Inodes, i \in BOOLEAN : InsertInodeMapping(path, cid, i)
    \/ \E p \in Paths, q \in Paths : RenameItem(p, q)
    \/ ClearCache
    \/ ReportUnsyncedData

Spec == Init /\ [][Next]_vars

(***************************************************************************)
(* The Cache over an engine that holds its pool.  CustomCacheEngine::new   *)
(* builds no page; PoolEngine is the engine the page-level methods are     *)
(* written for: cache_nr_pages fresh pages in search_index, all of them    *)
(* in free_pages.  A third owner lets the pool run out.                    *)
(***************************************************************************)
PoolEngine ==
    [NewEngine EXCEPT !.search_index = [p \in PageIds |-> NewPage],
                      !.free_pages = [i \in 1..cache_nr_pages |-> i - 1]]

Owners == Inodes \cup {"c"}

InitPool ==
    /\ config \in [apply_lru_eviction : BOOLEAN]
    /\ engine = PoolEngine
    /\ file_inode_mapping = EmptyMap
    /\ contents = EmptyMap
    /\ files = InitialFiles
    /\ status = "running"
    /\ call = NoCall
    /\ ncalls = 0
    /\ threads = IdleThreads
    /\ faults = EmptyMap

\* One block per put and get: the bytes, written from offset 0.
PoolPutArgs == {[b \in {x} |-> <<d, 0, Len(d) - 1>>] : x \in Blocks, d \in Datas}

PoolGetArgs == {[b \in {x} |-> Zeros(io_block_size)] : x \in Blocks}

NextPool ==
    \/ \E cid \in Owners, blocks \in PoolPutArgs, t \in {"OpWrite", "OpRead"} :
         PutDataBlocks(cid, blocks, t)
    \/ \E cid \in Owners, blocks \in PoolGetArgs : GetDataBlocks(cid, blocks)
    \/ \E cid \in Owners, b \in Blocks : IsBlockCached(cid, b)
    \/ \E cid \in Owners, path \in Paths, c \in BOOLEAN : RemoveCachedItem(cid, path, c)
    \/ \E cid \in Owners, path \in Paths : SyncOwner(cid, FALSE, path)
    \/ \E path \in Paths, cid \in Owners : InsertInodeMapping(path, cid, FALSE)
    \/ FullCheckpoint
    \/ ClearCache
    \/ ReportUnsyncedData

SpecPool == InitPool /\ [][NextPool]_vars

(***************************************************************************)
(* Properties of the pool and of the Cache calls.                          *)
(***************************************************************************)
RECURSIVE SumOwned(_, _)
SumOwned(opm, owners) ==
    IF owners = {} THEN 0
    ELSE LET o == CHOOSE x \in owners : TRUE
         IN Cardinality(opm[o]) + SumOwned(opm, owners \ {o})

\* The bytes of block b in a file: true when the file holds data there.
FileHolds(bytes, b, data) ==
    /\ Len(bytes) >= b * io_block_size + Len(data)
    /\ SubSeq(bytes, b * io_block_size + 1, b * io_block_size + Len(data)) = data

\* C1: in every reachable state the number of pages in free_pages plus the
\* number of pages in the owners' sets of owner_pages_mapping is cache_nr_pages.
C1_CapacityBound ==
    Len(engine.free_pages)
      + SumOwned(engine.owner_pages_mapping, DOMAIN engine.owner_pages_mapping)
      = cache_nr_pages

\* C2: a put_data_blocks(I, {b: (bytes, 0, len-1)}, OpWrite) immediately followed
\* by get_data_blocks(I, {b: buf}) answers (true, Some((0, len-1))) for b, and
\* the first len bytes of the caller's buffer are bytes.
C2_ReadAfterWrite ==
    [][\A b \in Blocks :
         (/\ call.op = "put_data_blocks" /\ call.out = "ok"
          /\ call.arg.op = "OpWrite" /\ DOMAIN call.arg.blocks = {b}
          /\ call'.op = "get_data_blocks" /\ call'.cid = call.cid
          /\ DOMAIN call'.arg = {b})
         => (/\ call'.out = "ok"
             /\ b \in DOMAIN call'.res.found
             /\ call'.res.found[b] = <<TRUE, <<0, Len(call.arg.blocks[b][1]) - 1>>>>
             /\ SubSeq(call'.res.buffers[b], 1, Len(call.arg.blocks[b][1]))
                  = call.arg.blocks[b][1])]_vars

\* C3: after the writes of a put_data_blocks on I, a following
\* sync_owner(I, false, P) on an existing file P returns, leaves at b *
\* io_block_size the bytes of every block b the put cached, and leaves the file
\* as long as the item's metadata.size.
C3_RoundTrip ==
    [][(/\ call.op = "put_data_blocks" /\ call.out = "ok"
        /\ call'.op = "sync_owner" /\ call'.cid = call.cid
        /\ ~call'.arg.only_sync_data
        /\ files[call'.arg.path].exists)
       => (/\ call'.out = "ok"
           /\ \A b \in DOMAIN call.res :
                call.res[b] => FileHolds(files'[call'.arg.path].bytes, b, call.arg.blocks[b][1])
           /\ Len(files'[call'.arg.path].bytes) = contents'[call.cid].metadata.size)]_vars

FreePageContract(e, fs, owner, apply_lru_eviction) ==
    LET owner_has == /\ owner \in DOMAIN e.owner_free_pages_mapping
                     /\ Len(e.owner_free_pages_mapping[owner]) > 0
    IN IF owner_has
       THEN /\ get_next_free_page(e, fs, owner, apply_lru_eviction).from = "owner_free"
            /\ get_next_free_page(e, fs, owner, apply_lru_eviction).id
                 = Last(e.owner_free_pages_mapping[owner])
       ELSE IF Len(e.free_pages) > 0
       THEN /\ get_next_free_page(e, fs, owner, apply_lru_eviction).from = "free_pages"
            /\ get_next_free_page(e, fs, owner, apply_lru_eviction).id = Last(e.free_pages)
       ELSE IF apply_lru_eviction
       THEN /\ get_next_free_page(e, fs, owner, apply_lru_eviction).from = "lru"
            /\ get_next_free_page(e, fs, owner, apply_lru_eviction).out = "ok"
            /\ get_next_free_page(e, fs, owner, apply_lru_eviction).id >= 0
            /\ get_next_free_page(e, fs, owner, apply_lru_eviction).page # << >>
       ELSE /\ get_next_free_page(e, fs, owner, apply_lru_eviction).id = -1
            /\ get_next_free_page(e, fs, owner, apply_lru_eviction).page = << >>

\* C5: get_next_free_page(owner) pops from owner_free[owner] when that list is
\* not empty, else from free_pages when that is not empty; it evicts and returns
\* the LRU tail exactly when both are empty and apply_lru_eviction is set, and
\* answers (-1, None) when both are empty and eviction is off.
C5_FreePageSelection ==
    \A owner \in Inodes : FreePageContract(engine, files, owner, config.apply_lru_eviction)

\* Block b of owner A sits, by A's item, in a page that was handed to another
\* owner.
Stolen(A, b) ==
    /\ A \in DOMAIN contents
    /\ has_block(contents[A].data, b)
    /\ \E B \in (DOMAIN engine.owner_pages_mapping) \ {A} :
         get_page_id(contents[A].data, b) \in engine.owner_pages_mapping[B]

SyncOwnerId == "a"
SyncPath == "p1"
SyncBlocks == 0..MaxSyncBlock

\* The bytes of block b: b + 1 up to readable_to, zero after.
BlockBytes(b, readable_to) ==
    [i \in 1..io_block_size |-> IF i <= readable_to + 1 THEN b + 1 ELSE 0]

SlotOf(b) == (b % SlotsPerPage) * io_block_size

\* An owner_ordered entry for block b: <<page_id, page copy, offsets, flag>>.
OrderedEntry(b, page_id, readable_to, dirty) ==
    <<page_id,
      [is_dirty |-> dirty,
       page_owner_id |-> SyncOwnerId,
       free_block_indexes |-> SelectSeq(SeedFreeIndexes, LAMBDA x : x # SlotOf(b)),
       data |-> WriteAt(Zeros(cache_page_size), SlotOf(b), BlockBytes(b, readable_to)),
       block_offset_mapping |-> (b :> <<SlotOf(b), SlotOf(b) + io_block_size - 1>>),
       block_readable_to |-> (b :> readable_to)],
      <<SlotOf(b), SlotOf(b) + io_block_size - 1>>,
      FALSE>>

OrderedEntries(b) ==
    {OrderedEntry(b, page_id, readable_to, dirty) :
       page_id \in PageIds, readable_to \in {0, io_block_size - 1}, dirty \in BOOLEAN}

\* The maps that give every block b of bs one of OrderedEntries(b).
RECURSIVE OrderedMapsOver(_)
OrderedMapsOver(bs) ==
    IF bs = {} THEN {EmptyMap}
    ELSE LET b == CHOOSE x \in bs : TRUE
         IN {MapPut(m, b, entry) : m \in OrderedMapsOver(bs \ {b}), entry \in OrderedEntries(b)}

OrderedMaps == UNION {OrderedMapsOver(bs) : bs \in (SUBSET SyncBlocks) \ {{}}}

InitSyncPages ==
    /\ config = [apply_lru_eviction |-> FALSE]
    /\ \E m \in OrderedMaps :
         engine = [PoolEngine EXCEPT
                     !.free_pages = << >>,
                     !.owner_pages_mapping = (SyncOwnerId :> {m[b][1] : b \in DOMAIN m}),
                     !.owner_ordered_pages_mapping = (SyncOwnerId :> m)]
    /\ file_inode_mapping = EmptyMap
    /\ contents = EmptyMap
    /\ files = InitialFiles
    /\ status = "running"
    /\ call = NoCall
    /\ ncalls = 0
    /\ threads = IdleThreads
    /\ faults = EmptyMap

\* What the call saw and did: the dirty blocks of the owner before it, the
\* blocks visited and the <<offset, bytes>> writes, in order.
SyncPagesDone(owner, size, ord, r) ==
    /\ engine' = r.e
    /\ files' = r.fs
    /\ call' = [op |-> "sync_pages", cid |-> owner,
                arg |-> [size |-> size, ordered |-> ord],
                res |-> [writes |-> r.writes, visited |-> r.visited],
                out |-> r.out]
    /\ ncalls' = ncalls + 1
    /\ status' = IF r.out \in {"ok", "err"} THEN "running" ELSE r.out
    /\ UNCHANGED <<threads, faults>>

\* PageCacheEngine::sync_pages
SyncPages(owner, size, orig_path) ==
    /\ Running
    /\ \E order1 \in Orders(DOMAIN OwnerOrdered(engine, owner)) :
       \E order2 \in Orders(DirtyIndexes(OwnerOrdered(engine, owner), order1)) :
         SyncPagesDone(owner, size, OwnerOrdered(engine, owner),
                       sync_pages(engine, files, owner, size, orig_path, order1, order2))
    /\ UNCHANGED <<config, file_inode_mapping, contents>>

NextSyncPages == SyncPages(SyncOwnerId, (MaxSyncBlock + 1) * io_block_size, SyncPath)

SpecSyncPages == InitSyncPages /\ [][NextSyncPages]_vars

\* The dirty blocks of an owner_ordered map.
DirtyBlocks(ord) == {b \in DOMAIN ord : is_page_dirty(ord[b][2])}

\* The bytes of block b in its own slot of its page copy, n of them.
SlotBytes(ord, b, n) == SubSeq(ord[b][2].data, ord[b][3][1] + 1, ord[b][3][1] + n)

RECURSIVE RunBytes(_, _, _)
RunBytes(ord, first, last) ==
    IF first = last THEN SlotBytes(ord, last, get_readable_to(ord[last][2], last) + 1)
    ELSE SlotBytes(ord, first, io_block_size) \o RunBytes(ord, first + 1, last)

\* The maximal runs of consecutive dirty blocks, each as the write it calls
\* for: <<first * io_block_size, bytes of the run>>.
RunWrites(ord) ==
    {<<first * io_block_size, RunBytes(ord, first, last)>> :
       <<first, last>> \in {fl \in DirtyBlocks(ord) \X DirtyBlocks(ord) :
                              /\ fl[1] <= fl[2]
                              /\ \A b \in fl[1]..fl[2] : b \in DirtyBlocks(ord)
                              /\ (fl[1] - 1) \notin DirtyBlocks(ord)
                              /\ (fl[2] + 1) \notin DirtyBlocks(ord)}}

Ascending(seq) == \A i, j \in 1..Len(seq) : i < j => seq[i] < seq[j]

get_original_inode(fim, path) == IF path \in DOMAIN fim THEN <<fim[path]>> ELSE << >>

\* The pages the engine counts as the owner's.
OwnedPages(e, owner) ==
    IF owner \in DOMAIN e.owner_pages_mapping THEN e.owner_pages_mapping[owner] ELSE {}

InFreePages(e, page_id) == \E i \in 1..Len(e.free_pages) : e.free_pages[i] = page_id

\* What the engine holds for one owner.
OwnerView(e, owner) ==
    [pages |-> OwnedPages(e, owner),
     ordered |-> OwnerOrdered(e, owner),
     free |-> IF owner \in DOMAIN e.owner_free_pages_mapping
              THEN e.owner_free_pages_mapping[owner] ELSE << >>]

\* C11: for a cached inode I, insert_inode_mapping(p, I, true) returns with
\* p mapped to I and I's nlinks one higher; and remove_cached_item(I, p1, false)
\* on the item with its two links (nlinks 2) returns false, leaves the item
\* present with nlinks 1, removes p1 from file_inode_mapping and keeps every
\* other path of I mapped to I.
C11_HardlinkCount ==
    [][/\ (/\ call'.op = "insert_inode_mapping" /\ call'.arg.increase
           /\ call'.cid \in DOMAIN contents)
          => (/\ call'.out = "ok"
              /\ call'.cid \in DOMAIN contents'
              /\ contents'[call'.cid].metadata.nlinks
                   = contents[call'.cid].metadata.nlinks + 1
              /\ get_original_inode(file_inode_mapping', call'.arg.path) = <<call'.cid>>)
       /\ (/\ call'.op = "remove_cached_item" /\ ~call'.arg.is_from_cache
           /\ call'.cid \in DOMAIN contents
           /\ contents[call'.cid].metadata.nlinks = 2)
          => (/\ call'.out = "ok"
              /\ call'.res = FALSE
              /\ call'.cid \in DOMAIN contents'
              /\ contents'[call'.cid].metadata.nlinks = 1
              /\ get_original_inode(file_inode_mapping', call'.arg.path) = << >>
              /\ \A q \in (DOMAIN file_inode_mapping) \ {call'.arg.path} :
                   file_inode_mapping[q] = call'.cid
                     => get_original_inode(file_inode_mapping', q) = <<call'.cid>>)]_vars

(***************************************************************************)
(* The Cache over the pool with link counts: puts, nlinks set through      *)
(* update_content_metadata, path mappings, unlink, rename and clear.       *)
(***************************************************************************)
LinkMetadatas == [nlinks : 0..MaxNlinks, size : {0}]

NextLinks ==
    \/ \E cid \in Inodes, blocks \in PoolPutArgs : PutDataBlocks(cid, blocks, "OpWrite")
    \/ \E cid \in Inodes, m \in LinkMetadatas : UpdateContentMetadata(cid, m, {"nlinks"})
    \/ \E cid \in Inodes, b \in Blocks : IsBlockCached(cid, b)
    \/ \E cid \in Inodes, path \in Paths, c \in BOOLEAN : RemoveCachedItem(cid, path, c)
    \/ \E path \in Paths, cid \in Inodes, i \in BOOLEAN : InsertInodeMapping(path, cid, i)
    \/ \E p \in Paths, q \in Paths : RenameItem(p, q)
    \/ ClearCache

SpecLinks == InitPool /\ [][NextLinks]_vars

C13_NlinksFloor ==
    [][/\ (call'.op = "remove_cached_item" /\ call'.cid \in DOMAIN contents)
          => (/\ call'.out = "ok"
              /\ call'.cid \in DOMAIN contents'
                   => contents'[call'.cid].metadata.nlinks
                        = Max(contents[call'.cid].metadata.nlinks - 1, 1))
       /\ (/\ call'.op = "rename_item"
           /\ call'.arg[1] \in DOMAIN file_inode_mapping
           /\ call'.arg[2] \in DOMAIN file_inode_mapping
           /\ file_inode_mapping[call'.arg[2]] \in DOMAIN contents)
          => (/\ call'.out = "ok"
              /\ file_inode_mapping[call'.arg[2]] \in DOMAIN contents'
                   => contents'[file_inode_mapping[call'.arg[2]]].metadata.nlinks
                        = Max(contents[file_inode_mapping[call'.arg[2]]].metadata.nlinks - 1, 1))]_vars

\* C14: rename_item(old_path, new_path), with old_path mapped to I and new_path
\* mapped to a cached J other than I whose nlinks is 1, returns with new_path
\* mapped to I, J gone from contents, and every page J owned reset and in
\* free_pages.
C14_RenameAtomicity ==
    [][(/\ call'.op = "rename_item"
        /\ call'.arg[1] \in DOMAIN file_inode_mapping
        /\ call'.arg[2] \in DOMAIN file_inode_mapping
        /\ file_inode_mapping[call'.arg[2]] # file_inode_mapping[call'.arg[1]]
        /\ file_inode_mapping[call'.arg[2]] \in DOMAIN contents
        /\ contents[file_inode_mapping[call'.arg[2]]].metadata.nlinks = 1)
       => (/\ call'.out = "ok"
           /\ get_original_inode(file_inode_mapping', call'.arg[2])
                = <<file_inode_mapping[call'.arg[1]]>>
           /\ file_inode_mapping[call'.arg[2]] \notin DOMAIN contents'
           /\ \A p \in OwnedPages(engine, file_inode_mapping[call'.arg[2]]) :
                /\ InFreePages(engine', p)
                /\ engine'.search_index[p] = NewPage)]_vars

C17_ClearCache ==
    [][call'.op = "clear_cache"
       => (/\ call'.out = "ok"
           /\ DOMAIN file_inode_mapping' = {}
           /\ DOMAIN contents' = {}
           /\ \A o \in DOMAIN contents :
                /\ OwnedPages(engine', o) = {}
                /\ \A p \in OwnedPages(engine, o) :
                     InFreePages(engine', p) /\ engine'.search_index[p] = NewPage)]_vars

(***************************************************************************)
(* put_data_blocks and the item index.                                     *)
(***************************************************************************)
\* The puts and the removals of the owners over the pool: the calls that
\* change what a later put finds in the item and in the engine.
NextPut ==
    \/ \E cid \in Owners, blocks \in PoolPutArgs, t \in {"OpWrite", "OpRead"} :
         PutDataBlocks(cid, blocks, t)
    \/ \E cid \in Owners, path \in Paths, c \in BOOLEAN : RemoveCachedItem(cid, path, c)

SpecPut == InitPool /\ [][NextPut]_vars

\* The item put_data_blocks works on: the cached one, or the default item it
\* creates.
ItemBefore(ct, cid) == insert_item_if_not_exists(ct, cid).contents[cid]

\* The block_data_mapping put_data_blocks builds for the engine.
PutMapping(ct, cid, blocks) ==
    [b \in DOMAIN blocks |->
        <<IF insert_item_if_not_exists(ct, cid).is_new
          THEN -1 ELSE get_page_id(ItemBefore(ct, cid).data, b),
          blocks[b][1], blocks[b][2]>>]

ReadableToBefore(item, b) ==
    IF has_block(item.data, b) THEN item.data[b].readable_offset[2] ELSE 0

\* The answer res and the item after agree with the engine's allocations.
PutAgrees(allocations, before, after, blocks, res) ==
    /\ DOMAIN res = DOMAIN blocks
    /\ DOMAIN allocations = DOMAIN blocks
    /\ \A b \in DOMAIN blocks :
         /\ res[b] = (allocations[b] >= 0)
         /\ allocations[b] >= 0
              => (/\ has_block(after.data, b)
                  /\ get_page_id(after.data, b) = allocations[b]
                  /\ item_get_readable_offsets(after.data, b)
                       = <<<<0, Max(ReadableToBefore(before, b), blocks[b][3])>>>>)
         /\ allocations[b] < 0 => ~has_block(after.data, b)
    /\ \A b \in (DOMAIN before.data) \ (DOMAIN blocks) :
         has_block(after.data, b) /\ after.data[b] = before.data[b]
    /\ after.metadata = before.metadata
    /\ after.is_synced = IF \E b \in DOMAIN blocks : allocations[b] >= 0
                         THEN FALSE ELSE before.is_synced

\* C18: a put_data_blocks that returns leaves the item present (created if it
\* was absent); for every requested block the answer is true exactly when the
\* engine assigned a page id >= 0, and then the item maps the block to that page
\* with its readable_upto recorded; a block the engine answered -1 for is false
\* and has no entry in the item; is_synced is false when a block was allocated
\* and as it was when none was.
C18_PutResult ==
    [][(call'.op = "put_data_blocks" /\ call'.out = "ok")
       => (/\ call'.cid \in DOMAIN contents'
           /\ \E order \in Orders(DOMAIN call'.arg.blocks) :
                PutAgrees(allocate_blocks(engine, files, call'.cid,
                                          PutMapping(contents, call'.cid, call'.arg.blocks),
                                          order, call'.arg.op = "OpWrite",
                                          config.apply_lru_eviction).res,
                          ItemBefore(contents, call'.cid), contents'[call'.cid],
                          call'.arg.blocks, call'.res))]_vars

\* A put the engine refused, after a put it served: the refused item is
\* cached, holds no block and is still synced, next to an unsynced one.
C18_Witness ==
    /\ call.op = "put_data_blocks" /\ call.out = "ok"
    /\ \E b \in DOMAIN call.res : ~call.res[b]
    /\ call.cid \in DOMAIN contents
    /\ contents[call.cid].is_synced
    /\ DOMAIN contents[call.cid].data = {}
    /\ \E o \in DOMAIN contents :
         /\ ~contents[o].is_synced
         /\ \E b \in DOMAIN contents[o].data : get_page_id(contents[o].data, b) >= 0

TruncateOwnerId == "a"

BlockInfos == [readable_offset : {<<0, t>> : t \in 0..(io_block_size - 1)},
               page_index_number : PageIds]

ItemDatas == UNION {[bs -> BlockInfos] : bs \in SUBSET SyncBlocks}

InitTruncate ==
    /\ config = [apply_lru_eviction |-> FALSE]
    /\ engine = NewEngine
    /\ file_inode_mapping = EmptyMap
    /\ \E d \in ItemDatas : contents = (TruncateOwnerId :> [DefaultItem EXCEPT !.data = d])
    /\ files = InitialFiles
    /\ status = "running"
    /\ call = NoCall
    /\ ncalls = 0
    /\ threads = IdleThreads
    /\ faults = EmptyMap

TruncateBlocksAfter(cid, blk_id, blk_byte_index) ==
    /\ Running
    /\ contents' = [contents EXCEPT ![cid].data =
                      truncate_blocks_after(@, blk_id, blk_byte_index).data]
    /\ Returns("truncate_blocks_after", cid,
               [blk_id |-> blk_id, blk_byte_index |-> blk_byte_index,
                data |-> contents[cid].data],
               truncate_blocks_after(contents[cid].data, blk_id, blk_byte_index).res, "ok")
    /\ UNCHANGED <<config, engine, file_inode_mapping, files>>

NextTruncate ==
    \E blk_id \in 0..(MaxSyncBlock + 1), blk_byte_index \in 0..(io_block_size - 1) :
      TruncateBlocksAfter(TruncateOwnerId, blk_id, blk_byte_index)

SpecTruncate == InitTruncate /\ [][NextTruncate]_vars

\* The size an item is truncated to by a cut at block blk_id, index k.
TruncatedSize(blk_id, k) == blk_id * io_block_size + k

\* C15: after a truncation to size S = b* * io_block_size + k the item has no
\* entry for a block b with b * io_block_size >= S, every block below b* is as
\* it was, the boundary block b* is kept when k > 0, with readable_to k - 1 and
\* its page, and the map returned lists exactly the (block, page) pairs of the
\* blocks >= b*.
C15_TruncateIndex ==
    call.op = "truncate_blocks_after" =>
      LET before == call.arg.data
          after == contents[call.cid].data
          bstar == call.arg.blk_id
          k == call.arg.blk_byte_index
      IN /\ \A b \in DOMAIN after : b * io_block_size < TruncatedSize(bstar, k)
         /\ \A b \in DOMAIN before : b < bstar => (has_block(after, b) /\ after[b] = before[b])
         /\ (k > 0 /\ has_block(before, bstar))
              => (/\ has_block(after, bstar)
                  /\ after[bstar].readable_offset[2] = k - 1
                  /\ after[bstar].page_index_number = before[bstar].page_index_number)
         /\ DOMAIN after \subseteq DOMAIN before
         /\ DOMAIN call.res = {b \in DOMAIN before : b >= bstar}
         /\ \A b \in DOMAIN call.res : call.res[b] = before[b].page_index_number

\* A cut inside a held block, with a block below it and a block above it.
C15_Witness ==
    /\ call.op = "truncate_blocks_after"
    /\ call.arg.blk_byte_index > 0
    /\ has_block(call.arg.data, call.arg.blk_id)
    /\ \E b \in DOMAIN call.arg.data : b < call.arg.blk_id
    /\ \E b \in DOMAIN call.arg.data : b > call.arg.blk_id
    /\ has_block(contents[call.cid].data, call.arg.blk_id)

(***************************************************************************)
(* The locks of the Cache.  A Cache call is followed here as the sequence  *)
(* of lock requests its code makes: inner, file_inode_mapping, contents    *)
(* and engine are RwLocks, item is the Mutex of the item the call works    *)
(* on.  A guard lives to the end of the function that took it; a helper's  *)
(* guards are released when the helper returns.  Each program is the path  *)
(* of the call whose item is cached and, for clear_cache, whose mapping is *)
(* not empty.  Methods that take &mut self run while no other call does.   *)
(* A poisoned lock (after a panic under a guard) is not followed.          *)
(***************************************************************************)
Acq(lock, mode) == [k |-> "acq", lock |-> lock, mode |-> mode]

Rel(lock) == [k |-> "rel", lock |-> lock, mode |-> ""]

has_content_cached_locks ==
    <<Acq("inner", "r"), Acq("contents", "r"), Rel("contents"), Rel("inner")>>

insert_item_locks == <<Acq("inner", "w"), Acq("contents", "w")>>

insert_item_if_not_exists_locks ==
    <<Acq("inner", "w"), Acq("contents", "w"), Rel("contents"), Rel("inner")>>

update_content_metadata_locks ==
    <<Acq("inner", "w"), Acq("contents", "w"), Acq("item", "x")>>

get_content_metadata_locks ==
    <<Acq("inner", "r"), Acq("contents", "r"), Acq("item", "x"),
      Rel("item"), Rel("contents"), Rel("inner")>>

get_readable_offsets_locks ==
    <<Acq("inner", "r"), Acq("engine", "r"), Rel("engine"), Rel("inner")>>

put_data_blocks_locks ==
    insert_item_if_not_exists_locks
      \o <<Acq("inner", "r"), Acq("contents", "r"), Acq("item", "x"), Acq("engine", "w")>>

get_data_blocks_locks ==
    has_content_cached_locks
      \o <<Acq("inner", "r"), Acq("contents", "r"), Acq("item", "x"), Acq("engine", "w")>>
      \o get_readable_offsets_locks

is_block_cached_locks ==
    has_content_cached_locks
      \o <<Acq("inner", "r"), Acq("contents", "r"), Acq("item", "x"), Acq("engine", "r")>>

get_cache_usage_locks == <<Acq("inner", "r"), Acq("engine", "r")>>

remove_cached_item_inner_locks ==
    <<Acq("file_inode_mapping", "w"), Acq("contents", "w"), Acq("item", "x"),
      Rel("item"), Rel("contents"), Rel("file_inode_mapping")>>

remove_cached_item_locks ==
    has_content_cached_locks
      \o <<Acq("inner", "w")>> \o remove_cached_item_inner_locks \o <<Acq("engine", "w")>>

sync_owner_inner_locks ==
    <<Acq("contents", "r"), Acq("item", "x"), Acq("engine", "w"),
      Acq("contents", "w"), Acq("item", "x")>>

sync_owner_locks == <<Acq("inner", "w")>> \o has_content_cached_locks \o sync_owner_inner_locks

full_checkpoint_locks ==
    <<Acq("inner", "w"), Acq("file_inode_mapping", "r")>> \o sync_owner_inner_locks

report_unsynced_data_locks ==
    <<Acq("inner", "r"), Acq("contents", "r"), Acq("engine", "r"), Acq("item", "x"),
      Rel("item")>>

rename_item_locks ==
    <<Acq("inner", "w"), Acq("file_inode_mapping", "w"), Acq("file_inode_mapping", "w")>>

clear_cache_locks ==
    <<Acq("inner", "w"), Acq("file_inode_mapping", "r")>>
      \o remove_cached_item_inner_locks
      \o <<Acq("contents", "w"), Acq("engine", "w")>>

get_original_inode_locks == <<Acq("inner", "r"), Acq("file_inode_mapping", "r")>>

\* insert_inode_mapping with increase.
insert_inode_mapping_locks ==
    <<Acq("inner", "w"), Acq("file_inode_mapping", "w")>>
      \o get_content_metadata_locks
      \o <<Acq("contents", "w"), Acq("item", "x")>>

\* The methods that take &self and the ones that take &mut self.
SharedSelfOps ==
    {"insert_item", "update_content_metadata", "get_content_metadata", "has_content_cached",
     "is_block_cached", "get_cache_usage", "remove_cached_item", "sync_owner",
     "full_checkpoint", "report_unsynced_data", "get_original_inode"}

MutSelfOps ==
    {"put_data_blocks", "get_data_blocks", "rename_item", "clear_cache", "insert_inode_mapping"}

LockProgram(op) ==
    CASE op = "insert_item" -> insert_item_locks
      [] op = "update_content_metadata" -> update_content_metadata_locks
      [] op = "get_content_metadata" -> get_content_metadata_locks
      [] op = "has_content_cached" -> has_content_cached_locks
      [] op = "is_block_cached" -> is_block_cached_locks
      [] op = "get_cache_usage" -> get_cache_usage_locks
      [] op = "remove_cached_item" -> remove_cached_item_locks
      [] op = "sync_owner" -> sync_owner_locks
      [] op = "full_checkpoint" -> full_checkpoint_locks
      [] op = "report_unsynced_data" -> report_unsynced_data_locks
      [] op = "get_original_inode" -> get_original_inode_locks
      [] op = "put_data_blocks" -> put_data_blocks_locks
      [] op = "get_data_blocks" -> get_data_blocks_locks
      [] op = "rename_item" -> rename_item_locks
      [] op = "clear_cache" -> clear_cache_locks
      [] op = "insert_inode_mapping" -> insert_inode_mapping_locks
      [] OTHER -> << >>

InCall(t) == threads[t].op # "idle"

AtStep(t) == InCall(t) /\ threads[t].pc <= Len(LockProgram(threads[t].op))

NextStep(t) == LockProgram(threads[t].op)[threads[t].pc]

Requesting(t) == AtStep(t) /\ NextStep(t).k = "acq"

Holds(t, lock) == \E i \in 1..Len(threads[t].held) : threads[t].held[i].lock = lock

\* A second lock of something the thread holds, other than a read under a read.
SelfConflict(t, lock, mode) ==
    \E i \in 1..Len(threads[t].held) :
      threads[t].held[i].lock = lock /\ (mode # "r" \/ threads[t].held[i].mode # "r")

\* What another thread holds that keeps t from the lock.
HeldAgainst(t, u, lock, mode) ==
    \E i \in 1..Len(threads[u].held) :
      threads[u].held[i].lock = lock /\ (mode # "r" \/ threads[u].held[i].mode # "r")

Grantable(t, lock, mode) == \A u \in Threads \ {t} : ~HeldAgainst(t, u, lock, mode)

\* Dropping the guard taken last on the lock.
DropGuard(held, lock) ==
    LET i == CHOOSE n \in 1..Len(held) :
                 held[n].lock = lock /\ \A m \in (n + 1)..Len(held) : held[m].lock # lock
    IN RemoveAt(held, i - 1)

StartCall(t, op) ==
    /\ ~InCall(t)
    /\ \A u \in Threads \ {t} : threads[u].op \notin MutSelfOps
    /\ op \in MutSelfOps => \A u \in Threads \ {t} : ~InCall(u)
    /\ threads' = [threads EXCEPT ![t] = [IdleThread EXCEPT !.op = op]]
    /\ UNCHANGED <<config, engine, file_inode_mapping, contents, files, status, call, ncalls, faults>>

Acquire(t) ==
    /\ threads[t].state = "run"
    /\ Requesting(t)
    /\ ~SelfConflict(t, NextStep(t).lock, NextStep(t).mode)
    /\ Grantable(t, NextStep(t).lock, NextStep(t).mode)
    /\ threads' = [threads EXCEPT
                     ![t].held = Append(@, [lock |-> NextStep(t).lock, mode |-> NextStep(t).mode]),
                     ![t].pc = @ + 1]
    /\ UNCHANGED <<config, engine, file_inode_mapping, contents, files, status, call, ncalls, faults>>

\* The thread asks again for a lock it holds: it blocks for ever, or panics and
\* drops its guards.
LockAgain(t) ==
    /\ threads[t].state = "run"
    /\ Requesting(t)
    /\ SelfConflict(t, NextStep(t).lock, NextStep(t).mode)
    /\ \E out \in Relock :
         threads' = [threads EXCEPT
                       ![t].state = out,
                       ![t].held = IF out = "panic" THEN << >> ELSE @]
    /\ UNCHANGED <<config, engine, file_inode_mapping, contents, files, status, call, ncalls, faults>>

Release(t) ==
    /\ threads[t].state = "run"
    /\ AtStep(t)
    /\ NextStep(t).k = "rel"
    /\ threads' = [threads EXCEPT
                     ![t].held = DropGuard(@, NextStep(t).lock),
                     ![t].pc = @ + 1]
    /\ UNCHANGED <<config, engine, file_inode_mapping, contents, files, status, call, ncalls, faults>>

\* The call returns and its guards are dropped.
ReturnCall(t) ==
    /\ threads[t].state = "run"
    /\ InCall(t)
    /\ ~AtStep(t)
    /\ threads' = [threads EXCEPT ![t] = IdleThread]
    /\ UNCHANGED <<config, engine, file_inode_mapping, contents, files, status, call, ncalls, faults>>

NextLocks ==
    \/ \E t \in Threads, op \in SharedSelfOps \cup MutSelfOps : StartCall(t, op)
    \/ \E t \in Threads : Acquire(t)
    \/ \E t \in Threads : LockAgain(t)
    \/ \E t \in Threads : Release(t)
    \/ \E t \in Threads : ReturnCall(t)

SpecLocks == Init /\ [][NextLocks]_vars

\* The levels of the lock order: the cache-level locks, the item, the engine.
LockLevel(lock) ==
    IF lock \in {"inner", "file_inode_mapping", "contents"} THEN 1
    ELSE IF lock = "item" THEN 2 ELSE 3

\* t waits for a lock that u holds.
WaitsFor(t, u) ==
    /\ threads[t].state = "run"
    /\ Requesting(t)
    /\ HeldAgainst(t, u, NextStep(t).lock, NextStep(t).mode)

\* C20: a Cache call asks for a lock only while every guard it holds is of the
\* same or an earlier level of the order cache-level lock, item lock, engine
\* lock, and no two calls wait for each other's locks.
C20_LockOrdering ==
    /\ \A t \in Threads :
         Requesting(t) =>
           \A i \in 1..Len(threads[t].held) :
             LockLevel(threads[t].held[i].lock) <= LockLevel(NextStep(t).lock)
    /\ \A t, u \in Threads : t # u => ~(WaitsFor(t, u) /\ WaitsFor(u, t))

(***************************************************************************)
(* sync_pages over a backing store whose calls can fail.  The calls of one *)
(* sync_pages are numbered as they are made: 0 is the open, k >= 1 the     *)
(* seek and write of the k-th run, and the call after the last write is    *)
(* set_len.  `failing` is the number of the call that answers Err.         *)
(***************************************************************************)
RECURSIVE WritesApplied(_, _)
WritesApplied(bytes, writes) ==
    IF writes = << >> THEN bytes
    ELSE WritesApplied(WriteAt(bytes, writes[1][1], writes[1][2]), Tail(writes))

\* sync_pages whose call number `failing` fails: r is what sync_pages does on a
\* store that never fails.  The open comes before anything is touched; the
\* dirty flags are cleared by the first loop, before the first seek.
sync_pages_io_error(e, fs, orig_path, r, failing) ==
    IF failing = 0
    THEN [e |-> e, fs |-> fs, writes |-> << >>, visited |-> << >>, out |-> "err"]
    ELSE IF failing <= Len(r.writes)
    THEN [e |-> r.e,
          fs |-> [fs EXCEPT ![orig_path] =
                    FileOf(WritesApplied(fs[orig_path].bytes, SubSeq(r.writes, 1, failing - 1)))],
          writes |-> SubSeq(r.writes, 1, failing - 1), visited |-> r.visited, out |-> "err"]
    ELSE IF failing = Len(r.writes) + 1 /\ r.out = "ok"
    THEN [e |-> r.e,
          fs |-> [fs EXCEPT ![orig_path] =
                    FileOf(WritesApplied(fs[orig_path].bytes, r.writes))],
          writes |-> r.writes, visited |-> r.visited, out |-> "err"]
    ELSE r

\* The calls one sync_pages can make: the open, a write per dirty block at
\* most, set_len.
IoCalls == 0..(MaxSyncBlock + 2)

SyncPagesFailing(owner, size, orig_path, failing) ==
    /\ Running
    /\ \E order1 \in Orders(DOMAIN OwnerOrdered(engine, owner)) :
       \E order2 \in Orders(DirtyIndexes(OwnerOrdered(engine, owner), order1)) :
         SyncPagesDone(owner, size, OwnerOrdered(engine, owner),
                       sync_pages_io_error(engine, files, orig_path,
                                           sync_pages(engine, files, owner, size, orig_path,
                                                      order1, order2),
                                           failing))
    /\ UNCHANGED <<config, file_inode_mapping, contents>>

NextSyncFail ==
    \E failing \in IoCalls :
      SyncPagesFailing(SyncOwnerId, (MaxSyncBlock + 1) * io_block_size, SyncPath, failing)

SpecSyncFail == InitSyncPages /\ [][NextSyncFail]_vars

\* The readable bytes of block b of an owner_ordered map are in the file.
ReachedFile(fs, path, ord, b) ==
    FileHolds(fs[path].bytes, b, SlotBytes(ord, b, get_readable_to(ord[b][2], b) + 1))

C22_InsertInodeMapping ==
    [][call'.op = "insert_inode_mapping" =>
         IF call'.arg.increase
         THEN IF call'.cid \in DOMAIN contents
              THEN /\ call'.out = "ok"
                   /\ get_original_inode(file_inode_mapping', call'.arg.path) = <<call'.cid>>
                   /\ contents' = [contents EXCEPT ![call'.cid].metadata.nlinks = @ + 1]
              ELSE call'.out = "err"
         ELSE /\ call'.out = "ok"
              /\ get_original_inode(file_inode_mapping', call'.arg.path) = <<call'.cid>>
              /\ contents' = contents]_vars

\* The parts of C22 the code keeps: without increase_nlinks the mapping is
\* inserted and no item changes.
C22_MappingOnly ==
    [][(call'.op = "insert_inode_mapping" /\ ~call'.arg.increase) =>
         /\ call'.out = "ok"
         /\ get_original_inode(file_inode_mapping', call'.arg.path) = <<call'.cid>>
         /\ contents' = contents]_vars

(***************************************************************************)
(* The Config constructors.  A Config is here the record of the numeric    *)
(* fields and flags of the struct; usize is 64 bits wide.  The state keeps *)
(* in `config` the last Config a constructor returned.                     *)
(***************************************************************************)
\* The largest nr_blocks_per_page and page count passed to a constructor.
MaxConfigBlocks == 3

\* Config::default()
DefaultConfig ==
    [is_default_config |-> TRUE,
     cache_nr_pages |-> 5,
     cache_page_size |-> 4096,
     io_block_size |-> 4096,
     apply_lru_eviction |-> FALSE]

\* (prealloc_bytes as f64).ceil() as usize: exact for every value below 2^53,
\* which the values passed here are.
total_bytes_of(prealloc_bytes) == prealloc_bytes

\* Config::from_size.  A negative nr_blocks_per_page as usize is
\* 2^64 - |nr_blocks_per_page|, and its product with io_block_size does not fit
\* the word: the multiplication panics where overflow is checked, and where it
\* wraps the product, 2^64 - |nr_blocks_per_page| * io_block_size, is above
\* every total_bytes passed here, so the second test answers Err.  A zero
\* cache_page_size passes the second test and reaches the division.
from_size(cfg, prealloc_bytes, nr_blocks_per_page) ==
    LET c1 == [cfg EXCEPT !.is_default_config = FALSE] IN
    IF prealloc_bytes < c1.io_block_size
    THEN [config |-> c1, out |-> {"err"}]
    ELSE IF nr_blocks_per_page < 0
    THEN [config |-> c1, out |-> {"panic", "err"}]
    ELSE LET total_bytes == total_bytes_of(prealloc_bytes)
             c2 == [c1 EXCEPT !.cache_page_size = nr_blocks_per_page * c1.io_block_size]
         IN IF total_bytes <= nr_blocks_per_page * c1.io_block_size
            THEN [config |-> c2, out |-> {"err"}]
            ELSE IF c2.cache_page_size = 0
            THEN [config |-> c2, out |-> {"panic"}]
            ELSE [config |-> [c2 EXCEPT !.cache_nr_pages = total_bytes \div c2.cache_page_size],
                  out |-> {"ok"}]

\* Config::setup_config_manually: pg_sz % io_blk_sz with io_blk_sz = 0 panics.
setup_config_manually(cfg, io_blk_sz, pg_sz, nr_pgs) ==
    IF nr_pgs = 0 THEN [config |-> cfg, out |-> {"err"}]
    ELSE IF io_blk_sz = 0 THEN [config |-> cfg, out |-> {"panic"}]
    ELSE IF pg_sz % io_blk_sz # 0 THEN [config |-> cfg, out |-> {"err"}]
    ELSE [config |-> [cfg EXCEPT !.cache_nr_pages = nr_pgs,
                                 !.cache_page_size = pg_sz,
                                 !.io_block_size = io_blk_sz],
          out |-> {"ok"}]

\* A constructor's answer: the Config of Ok, nothing otherwise.
Constructed(op, arg, r) ==
    \E out \in r.out :
      /\ config' = IF out = "ok" THEN r.config ELSE config
      /\ Returns(op, "", arg, IF out = "ok" THEN <<r.config>> ELSE << >>, out)
      /\ UNCHANGED <<engine, file_inode_mapping, contents, files>>

\* Config::new_with_size
NewWithSize(prealloc_bytes, nr_blocks_per_page) ==
    /\ Running
    /\ Constructed("new_with_size",
                   [prealloc_bytes |-> prealloc_bytes,
                    nr_blocks_per_page |-> nr_blocks_per_page],
                   from_size(DefaultConfig, prealloc_bytes, nr_blocks_per_page))

\* Config::new_with_manual_config
NewWithManualConfig(io_blk_sz, pg_sz, nr_pgs) ==
    /\ Running
    /\ Constructed("new_with_manual_config",
                   [io_blk_sz |-> io_blk_sz, pg_sz |-> pg_sz, nr_pgs |-> nr_pgs],
                   setup_config_manually(DefaultConfig, io_blk_sz, pg_sz, nr_pgs))

\* The byte counts passed: around every multiple of the default block size.
PreallocBytes ==
    {x \in {k * DefaultConfig.io_block_size + d : k \in 0..(MaxConfigBlocks + 1), d \in {-1, 0, 1}} :
       x >= 0}

InitConfig ==
    /\ config = DefaultConfig
    /\ engine = NewEngine
    /\ file_inode_mapping = EmptyMap
    /\ contents = EmptyMap
    /\ files = InitialFiles
    /\ status = "running"
    /\ call = NoCall
    /\ ncalls = 0
    /\ threads = IdleThreads
    /\ faults = EmptyMap

NextConfig ==
    \/ \E p \in PreallocBytes, n \in (-MaxConfigBlocks)..MaxConfigBlocks : NewWithSize(p, n)
    \/ \E io \in 0..MaxConfigBlocks, pg \in 0..(2 * MaxConfigBlocks), nr \in 0..MaxConfigBlocks :
         NewWithManualConfig(io, pg, nr)

SpecConfig == InitConfig /\ [][NextConfig]_vars

\* pg_sz is a multiple of io_blk_sz.
MultipleOf(pg_sz, io_blk_sz) == \E k \in 0..pg_sz : pg_sz = k * io_blk_sz

\* C23: new_with_size(prealloc_bytes, n) returns an error when prealloc_bytes
\* is not above n * io_block_size, and for n >= 1 otherwise a Config with
\* cache_page_size = n * io_block_size and cache_nr_pages = prealloc_bytes /
\* cache_page_size >= 1; new_with_manual_config(io_blk, pg_sz, nr_pgs) returns an
\* error when nr_pgs = 0 or pg_sz is not a multiple of io_blk and otherwise a
\* Config with the three values; neither call panics, whatever its arguments.
C23_ConfigConstructors ==
    /\ call.op = "new_with_size" =>
         LET p == call.arg.prealloc_bytes
             n == call.arg.nr_blocks_per_page
             page == n * DefaultConfig.io_block_size
         IN /\ call.out \in {"ok", "err"}
            /\ p <= page => call.out = "err"
            /\ (n >= 1 /\ p > page) =>
                 /\ call.out = "ok"
                 /\ call.res[1].cache_page_size = page
                 /\ call.res[1].cache_nr_pages = p \div page
                 /\ call.res[1].cache_nr_pages >= 1
    /\ call.op = "new_with_manual_config" =>
         LET bad == call.arg.nr_pgs = 0 \/ ~MultipleOf(call.arg.pg_sz, call.arg.io_blk_sz)
         IN /\ call.out \in {"ok", "err"}
            /\ bad => call.out = "err"
            /\ ~bad =>
                 /\ call.out = "ok"
                 /\ call.res[1].cache_nr_pages = call.arg.nr_pgs
                 /\ call.res[1].cache_page_size = call.arg.pg_sz
                 /\ call.res[1].io_block_size = call.arg.io_blk_sz

\* The part of C23 the code keeps: for nr_blocks_per_page >= 1 and for
\* io_blk >= 1 the constructors answer as C23 says.
C23_PositiveArguments ==
    /\ (call.op = "new_with_size" /\ call.arg.nr_blocks_per_page >= 1) =>
         LET p == call.arg.prealloc_bytes
             page == call.arg.nr_blocks_per_page * DefaultConfig.io_block_size
         IN IF p > page
            THEN /\ call.out = "ok"
                 /\ call.res[1].cache_page_size = page
                 /\ call.res[1].cache_nr_pages = p \div page
                 /\ call.res[1].cache_nr_pages >= 1
            ELSE call.out = "err"
    /\ (call.op = "new_with_manual_config" /\ call.arg.io_blk_sz >= 1) =>
         IF call.arg.nr_pgs = 0 \/ ~MultipleOf(call.arg.pg_sz, call.arg.io_blk_sz)
         THEN call.out = "err"
         ELSE /\ call.out = "ok"
              /\ call.res[1].cache_nr_pages = call.arg.nr_pgs
              /\ call.res[1].cache_page_size = call.arg.pg_sz
              /\ call.res[1].io_block_size = call.arg.io_blk_sz

(***************************************************************************)
(* The faults of LazyFS.  The structs and their constructors are in        *)
(* config.rs; what counts a fault's matching operations and fires it is    *)
(* not in this source and is modelled from the specification: a fault is   *)
(* IDLE until a matching operation reaches it, ARMED while its counter is  *)
(* below its occurence, FIRING when the counter reaches it, DONE when its  *)
(* effect has been carried out, which halts the process.  Operations reach *)
(* a fault from several threads; each adds one to the counter atomically.  *)
(***************************************************************************)
\* The largest occurence a fault is configured with.
MaxOccurence == 3

FaultIds == {"split_write", "reorder"}

\* SplitWriteFault::from_parts, ReorderFault::from_op: the counter starts at 0.
NewFault(occurence) == [occurence |-> occurence, counter |-> 0, state |-> "IDLE", fired |-> 0]

\* A fault that fires on every matching operation from the occurence-th on.
FiresFrom(counter, occurence) == counter >= occurence

\* The matching operation that fires the fault: the occurence-th.
Fires(counter, occurence) == counter = occurence

\* A matching operation reaches the fault: fetch_add on the counter, and the
\* comparison of the value it gave.
fault_count(f) ==
    LET counter == f.counter + 1 IN
    IF Fires(counter, f.occurence)
    THEN [f EXCEPT !.counter = counter, !.state = "FIRING", !.fired = @ + 1]
    ELSE IF counter < f.occurence
    THEN [f EXCEPT !.counter = counter, !.state = "ARMED"]
    ELSE [f EXCEPT !.counter = counter]

\* An operation matching fault id runs on some thread.
MatchingOperation(id) ==
    /\ status = "running"
    /\ faults[id].counter <= MaxOccurence
    /\ faults' = [faults EXCEPT ![id] = fault_count(@)]
    /\ UNCHANGED <<config, engine, file_inode_mapping, contents, files, status, call, ncalls, threads>>

\* The thread that fired the fault has carried out its effect: the process is
\* halted.
FaultDone(id) ==
    /\ status = "running"
    /\ faults[id].state = "FIRING"
    /\ faults' = [faults EXCEPT ![id].state = "DONE"]
    /\ status' = "crashed"
    /\ UNCHANGED <<config, engine, file_inode_mapping, contents, files, call, ncalls, threads>>

\* LazyFS::new over a Cache::new, with one fault of each kind.
InitFaults ==
    /\ config \in [apply_lru_eviction : BOOLEAN]
    /\ engine = NewEngine
    /\ file_inode_mapping = EmptyMap
    /\ contents = EmptyMap
    /\ files = InitialFiles
    /\ status = "running"
    /\ call = NoCall
    /\ ncalls = 0
    /\ threads = IdleThreads
    /\ faults \in [FaultIds -> {NewFault(o) : o \in 1..MaxOccurence}]

NextFaults ==
    \/ \E id \in FaultIds : MatchingOperation(id)
    \/ \E id \in FaultIds : FaultDone(id)

SpecFaults == InitFaults /\ [][NextFaults]_vars

FaultRank(state) ==
    CASE state = "IDLE" -> 0 [] state = "ARMED" -> 1 [] state = "FIRING" -> 2 [] state = "DONE" -> 3

AllocatedPage(e, fs, owner, block_id, blk_data, offset_start, is_write, apply_lru_eviction) ==
    LET nf == get_next_free_page(e, fs, owner, apply_lru_eviction)
        got == get_allocate_free_offset(nf.page[1], block_id)
        upd == update_block_data(got.page, block_id, blk_data, offset_start)
    IN IF is_write THEN set_page_as_dirty(upd.page, TRUE) ELSE upd.page

\* The page copy sync_pages reads for block b of the owner is dirty.
EntryDirty(e, owner, b) ==
    /\ owner \in DOMAIN e.owner_ordered_pages_mapping
    /\ b \in DOMAIN e.owner_ordered_pages_mapping[owner]
    /\ is_page_dirty(e.owner_ordered_pages_mapping[owner][b][2])

\* Page p of the engine, or the copy kept for block b of the owner, is dirty.
DirtyAnywhere(e, owner, b, p) ==
    \/ EntryDirty(e, owner, b)
    \/ (p \in DOMAIN e.search_index /\ is_page_dirty(e.search_index[p]))

C25_NeverDirty ==
    \A owner \in Owners, b \in Blocks, p \in PageIds : ~DirtyAnywhere(engine, owner, b, p)

\* The copy allocate_blocks wrote the block into is dirty whatever the
\* operation type, by the time it is dropped.
C25_CopyAlwaysDirty ==
    [][(/\ call'.op = "put_data_blocks" /\ call'.out = "ok"
        /\ \E b \in DOMAIN call'.res : call'.res[b]
        /\ call'.cid \notin DOMAIN contents)
       => \A b \in DOMAIN call'.arg.blocks :
            is_page_dirty(AllocatedPage(engine, files, call'.cid, b,
                                        call'.arg.blocks[b][1], call'.arg.blocks[b][2],
                                        call'.arg.op = "OpWrite", config.apply_lru_eviction))]_vars

\* Inode I has block b cached on page p: its item maps b to p and the engine
\* keeps p among I's pages with b's entry on it.
CachedOn(ct, e, I, b, p) ==
    /\ I \in DOMAIN ct
    /\ has_block(ct[I].data, b)
    /\ get_page_id(ct[I].data, b) = p
    /\ p >= 0
    /\ I \in DOMAIN e.owner_pages_mapping
    /\ p \in e.owner_pages_mapping[I]
    /\ I \in DOMAIN e.owner_ordered_pages_mapping
    /\ b \in DOMAIN e.owner_ordered_pages_mapping[I]
    /\ e.owner_ordered_pages_mapping[I][b][1] = p

\* The pages of the engine that are owned by I and contain b.
ResidentPages(e, I, b) ==
    {q \in DOMAIN e.search_index :
       is_page_owner(e.search_index[q], I) /\ contains_block(e.search_index[q], b)}

\* The put hands the engine the page the item holds the block on.
PassesPreferredPage(ct, I, blocks, b, p) == PutMapping(ct, I, blocks)[b][1] = p

C26_SamePage ==
    [][call'.op = "put_data_blocks" =>
         \A b \in DOMAIN call'.arg.blocks : \A p \in PageIds :
           CachedOn(contents, engine, call'.cid, b, p) =>
             /\ call'.out = "ok"
             /\ call'.res[b]
             /\ get_page_id(contents'[call'.cid].data, b) = p
             /\ engine'.free_pages = engine.free_pages]_vars

\* No put of a cached block passes a preferred page, and no page of the engine
\* ever holds a block.
C26_NeverPreferred ==
    [][call'.op = "put_data_blocks" =>
         \A b \in DOMAIN call'.arg.blocks :
           /\ PutMapping(contents, call'.cid, call'.arg.blocks)[b][1] = -1
           /\ ResidentPages(engine', call'.cid, b) = {}]_vars

\* The put of owner on the engine e is served by evicting the LRU tail.
Evicts(e, fs, owner, apply_lru_eviction) ==
    get_next_free_page(e, fs, owner, apply_lru_eviction).from = "lru"

\* Owner A's maps hold page v, or a block entry that sits on v.
HoldsPage(e, A, v) ==
    \/ (A \in DOMAIN e.owner_pages_mapping /\ v \in e.owner_pages_mapping[A])
    \/ (A \in DOMAIN e.owner_ordered_pages_mapping
          /\ \E b \in DOMAIN e.owner_ordered_pages_mapping[A] :
               e.owner_ordered_pages_mapping[A][b][1] = v)
    \/ (A \in DOMAIN e.owner_free_pages_mapping
          /\ \E i \in 1..Len(e.owner_free_pages_mapping[A]) :
               e.owner_free_pages_mapping[A][i] = v)

\* How often the LRU queue holds v.
LruCount(e, v) == Cardinality({i \in 1..Len(e.lru_main_vector) : e.lru_main_vector[i] = v})

C27_VictimReused ==
    [][(/\ call'.op = "put_data_blocks"
        /\ Cardinality(DOMAIN call'.arg.blocks) = 1
        /\ Evicts(engine, files, call'.cid, config.apply_lru_eviction))
       => LET v == Last(engine.lru_main_vector) IN
          /\ call'.out = "ok"
          /\ \A b \in DOMAIN call'.res :
               call'.res[b] /\ get_page_id(contents'[call'.cid].data, b) = v]_vars

\* The LRU queue holds no page twice, page_order_mapping has the queued pages
\* as its keys, and the position it records for a page is where the page is.
LruWellFormed(e) ==
    /\ \A p \in PageIds : LruCount(e, p) <= 1
    /\ DOMAIN e.page_order_mapping = {e.lru_main_vector[i] : i \in 1..Len(e.lru_main_vector)}
    /\ \A p \in DOMAIN e.page_order_mapping :
         /\ e.page_order_mapping[p] >= 0
         /\ e.page_order_mapping[p] < Len(e.lru_main_vector)
         /\ e.lru_main_vector[e.page_order_mapping[p] + 1] = p

C28_VisitedAtFront ==
    [][(/\ call'.op = "put_data_blocks" /\ call'.out = "ok"
        /\ Cardinality(DOMAIN call'.arg.blocks) = 1)
       => \A b \in DOMAIN call'.res :
            call'.res[b] =>
              /\ Len(engine'.lru_main_vector) > 0
              /\ engine'.lru_main_vector[1] = get_page_id(contents'[call'.cid].data, b)]_vars

(***************************************************************************)
(* The readable extent of a block: Page::make_block_readable_to,           *)
(* BlockInfo::make_readable_to and make_block_readable_to_offset, called   *)
(* in any order with offsets inside a block.  call.res is the Page the     *)
(* first is called on, call.arg the block and the offsets each of the      *)
(* three has been given so far.                                            *)
(***************************************************************************)
MaxGiven == 3

\* The offsets put_data_blocks hands on: positions inside one block.
ReadableOffsets == 0..(io_block_size - 1)

\* The pages Page::get_allocate_free_offset leaves behind when it placed the
\* blocks of seq in a new page of the owner, one after the other.
RECURSIVE PagePlacing(_, _)
PagePlacing(owner, seq) ==
    IF seq = << >> THEN change_owner(NewPage, owner)
    ELSE get_allocate_free_offset(PagePlacing(owner, PopBack(seq)), Last(seq)).page

PagesPlacing(owner, b) ==
    {PagePlacing(owner, seq) :
       seq \in {s \in UNION {Orders(S) : S \in SUBSET Blocks} :
                  Len(s) <= SlotsPerPage /\ \E i \in 1..Len(s) : s[i] = b}}

MaxGivenOf(given) ==
    LET m[i \in 0..Len(given)] == IF i = 0 THEN 0 ELSE Max(m[i - 1], given[i])
    IN m[Len(given)]

\* The engine and the item after a first put of one block by cid; the item's
\* BlockInfo and the engine were given the put's readable_to.
InitReadable ==
    /\ config \in [apply_lru_eviction : BOOLEAN]
    /\ file_inode_mapping = EmptyMap
    /\ status = "running"
    /\ ncalls = 0
    /\ threads = IdleThreads
    /\ faults = EmptyMap
    /\ \E cid \in Owners, blocks \in PoolPutArgs, t \in {"OpWrite", "OpRead"} :
         LET b == CHOOSE x \in DOMAIN blocks : TRUE
             r == put_data_blocks(EmptyMap, PoolEngine, InitialFiles, cid, blocks, <<b>>, t,
                                  config.apply_lru_eviction)
         IN /\ engine = r.e
            /\ contents = r.contents
            /\ files = r.fs
            /\ \E page \in PagesPlacing(cid, b) :
                 call = [op |-> "none", cid |-> cid,
                         arg |-> [block |-> b, page |-> << >>,
                                  info |-> <<blocks[b][3]>>, engine |-> <<blocks[b][3]>>],
                         res |-> page, out |-> "ok"]

MoreGiven == status = "running" /\ ncalls < MaxGiven

\* Page::make_block_readable_to on the page call.res.
PageMakeBlockReadableTo(max_offset) ==
    /\ MoreGiven
    /\ ncalls' = ncalls + 1
    /\ call' = [call EXCEPT !.op = "make_block_readable_to",
                            !.arg.page = Append(@, max_offset),
                            !.res = make_block_readable_to(@, call.arg.block, max_offset)]
    /\ UNCHANGED <<config, engine, file_inode_mapping, contents, files, status, threads, faults>>

\* BlockInfo::make_readable_to on the item's entry for the block.
BlockInfoMakeReadableTo(to) ==
    /\ MoreGiven
    /\ ncalls' = ncalls + 1
    /\ contents' = [contents EXCEPT ![call.cid].data[call.arg.block] =
                                        block_info_make_readable_to(@, to)]
    /\ call' = [call EXCEPT !.op = "make_readable_to", !.arg.info = Append(@, to)]
    /\ UNCHANGED <<config, engine, file_inode_mapping, files, status, threads, faults>>

\* CustomCacheEngine::make_block_readable_to_offset for the block and the page
\* the item records for it.
MakeBlockReadableToOffset(offset) ==
    /\ MoreGiven
    /\ ncalls' = ncalls + 1
    /\ engine' = make_block_readable_to_offset(
                     engine, call.cid,
                     get_page_id(contents[call.cid].data, call.arg.block),
                     call.arg.block, offset)
    /\ call' = [call EXCEPT !.op = "make_block_readable_to_offset",
                            !.arg.engine = Append(@, offset)]
    /\ UNCHANGED <<config, file_inode_mapping, contents, files, status, threads, faults>>

NextReadable ==
    \/ \E o \in ReadableOffsets : PageMakeBlockReadableTo(o)
    \/ \E o \in ReadableOffsets : BlockInfoMakeReadableTo(o)
    \/ \E o \in ReadableOffsets : MakeBlockReadableToOffset(o)

SpecReadable == InitReadable /\ [][NextReadable]_vars

\* What the engine has stored as readable_to for block b of the owner: in the
\* page of the pool, and in the copy kept in owner_ordered_pages_mapping.
EngineReadableTo(e, owner, page_id, b) ==
    {get_readable_to(e.search_index[p], b) : p \in {page_id} \cap DOMAIN e.search_index}
    \cup (IF owner \in DOMAIN e.owner_ordered_pages_mapping
             /\ b \in DOMAIN e.owner_ordered_pages_mapping[owner]
          THEN {get_readable_to(e.owner_ordered_pages_mapping[owner][b][2], b)}
          ELSE {})

C29_BlockInfoMonotonic ==
    call.op # "none" =>
      contents[call.cid].data[call.arg.block].readable_offset[2] = MaxGivenOf(call.arg.info)

\* The page stores the offset of the last call, whatever came before.
C29_PageStoresLast ==
    call.arg.page # << >> =>
      get_readable_to(call.res, call.arg.block) = Last(call.arg.page)

\* The engine stores nothing, whatever it is given.
C29_EngineStoresNothing ==
    EngineReadableTo(engine, call.cid,
                     get_page_id(contents[call.cid].data, call.arg.block),
                     call.arg.block) \subseteq {0}

\* Every block the page holds with a readable_to stored for it has that
\* readable_to inside its placement.
ReadableInsidePlacement(page) ==
    \A b \in (DOMAIN page.block_offset_mapping) \cap (DOMAIN page.block_readable_to) :
       /\ get_block_offsets(page, b)[1] <= get_readable_to(page, b)
       /\ get_readable_to(page, b) <= get_block_offsets(page, b)[2]

C30_FirstSlot ==
    \A b \in (DOMAIN call.res.block_offset_mapping) \cap (DOMAIN call.res.block_readable_to) :
       get_block_offsets(call.res, b)[1] = 0 =>
         /\ 0 <= get_readable_to(call.res, b)
         /\ get_readable_to(call.res, b) <= get_block_offsets(call.res, b)[2]

\* A block in another slot has its readable_to below its placement.
C30_OtherSlotBelow ==
    \A b \in (DOMAIN call.res.block_offset_mapping) \cap (DOMAIN call.res.block_readable_to) :
       get_block_offsets(call.res, b)[1] > 0 =>
         get_readable_to(call.res, b) < get_block_offsets(call.res, b)[1]

(***************************************************************************)
(* One Page and its slots: get_allocate_free_offset, update_block_data,    *)
(* remove_block and reset called in any order.  call.res is the page,      *)
(* call.arg.again tells whether a block the page already held was          *)
(* allocated again.                                                        *)
(***************************************************************************)
MaxPageCalls == 4

InitPage ==
    /\ config = [apply_lru_eviction |-> FALSE]
    /\ engine = NewEngine
    /\ file_inode_mapping = EmptyMap
    /\ contents = EmptyMap
    /\ files = InitialFiles
    /\ status = "running"
    /\ ncalls = 0
    /\ threads = IdleThreads
    /\ faults = EmptyMap
    /\ \E owner \in Inodes :
         call = [op |-> "none", cid |-> owner, arg |-> [again |-> FALSE],
                 res |-> change_owner(NewPage, owner), out |-> "ok"]

MorePageCalls == status = "running" /\ ncalls < MaxPageCalls

PageCalled(op, again, page, out) ==
    /\ ncalls' = ncalls + 1
    /\ call' = [call EXCEPT !.op = op, !.arg.again = again, !.res = page, !.out = out]
    /\ status' = IF out = "panic" THEN "panic" ELSE "running"
    /\ UNCHANGED <<config, engine, file_inode_mapping, contents, files, threads, faults>>

PageGetAllocateFreeOffset(block_id) ==
    /\ MorePageCalls
    /\ LET r == get_allocate_free_offset(call.res, block_id)
       IN PageCalled("get_allocate_free_offset",
                     call.arg.again \/ (r.out = "ok" /\ contains_block(call.res, block_id)),
                     r.page, r.out)

PageUpdateBlockData(block_id, new_data, off_start) ==
    /\ MorePageCalls
    /\ LET r == update_block_data(call.res, block_id, new_data, off_start)
       IN PageCalled("update_block_data", call.arg.again, r.page, r.out)

PageRemoveBlock(block_id) ==
    /\ MorePageCalls
    /\ PageCalled("remove_block", call.arg.again, remove_block(call.res, block_id), "ok")

PageReset ==
    /\ MorePageCalls
    /\ PageCalled("reset", FALSE, reset(call.res), "ok")

NextPage ==
    \/ \E b \in Blocks : PageGetAllocateFreeOffset(b)
    \/ \E b \in Blocks, d \in Datas, off \in 0..(io_block_size - 1) : PageUpdateBlockData(b, d, off)
    \/ \E b \in Blocks : PageRemoveBlock(b)
    \/ PageReset

SpecPage == InitPage /\ [][NextPage]_vars

\* The slot starts of a page, the free ones and the ones blocks are placed at.
SlotStarts == {(i - 1) * io_block_size : i \in 1..SlotsPerPage}

FreeSlots(page) == {page.free_block_indexes[i] : i \in 1..Len(page.free_block_indexes)}

AllocatedSlots(page) ==
    {page.block_offset_mapping[b][1] : b \in DOMAIN page.block_offset_mapping}

SlotsPartition(page) ==
    /\ FreeSlots(page) \cap AllocatedSlots(page) = {}
    /\ FreeSlots(page) \cup AllocatedSlots(page) = SlotStarts
    /\ Cardinality(FreeSlots(page)) = Len(page.free_block_indexes)
    /\ Cardinality(AllocatedSlots(page)) = Cardinality(DOMAIN page.block_offset_mapping)

\* C31: after any sequence of the four calls the free slots and the slots of
\* the allocated blocks are disjoint and are together all slots of the page,
\* and a dirty page holds at least one block.
C31_PageSlots ==
    /\ SlotsPartition(call.res)
    /\ is_page_dirty(call.res) => DOMAIN call.res.block_offset_mapping # {}

\* The parts of C31 the code keeps: a dirty page holds a block, and the slots
\* are partitioned as long as no block the page holds was allocated again.
C31_DirtyHasBlock ==
    is_page_dirty(call.res) => DOMAIN call.res.block_offset_mapping # {}

C31_PartitionUntilAgain ==
    ~call.arg.again => SlotsPartition(call.res)

(***************************************************************************)
(* The boundary block of a truncation: what truncate_cached_blocks does to *)
(* the page of from_block_id when index_inside_block > 0, on a page held   *)
(* in call.res, and truncate_cached_blocks itself on the engine after a    *)
(* first put.                                                              *)
(***************************************************************************)
MaxBoundaryCalls == 2

\* The page after update_block_data wrote a full block of bytes b + 1 for
\* every block b of bs.
RECURSIVE PageFilled(_, _)
PageFilled(page, bs) ==
    IF bs = {} THEN page
    ELSE LET b == CHOOSE x \in bs : TRUE
         IN update_block_data(PageFilled(page, bs \ {b}), b,
                              BlockBytes(b, io_block_size - 1), 0).page

InitBoundary ==
    /\ config \in [apply_lru_eviction : BOOLEAN]
    /\ file_inode_mapping = EmptyMap
    /\ status = "running"
    /\ ncalls = 0
    /\ threads = IdleThreads
    /\ faults = EmptyMap
    /\ \E cid \in Owners, blocks \in PoolPutArgs, t \in {"OpWrite", "OpRead"} :
         LET b == CHOOSE x \in DOMAIN blocks : TRUE
             r == put_data_blocks(EmptyMap, PoolEngine, InitialFiles, cid, blocks, <<b>>, t,
                                  config.apply_lru_eviction)
         IN /\ engine = r.e
            /\ contents = r.contents
            /\ files = r.fs
            /\ \E page \in PagesPlacing(cid, b) :
                 call = [op |-> "none", cid |-> cid,
                         arg |-> [block |-> b, index |-> 0],
                         res |-> PageFilled(page, DOMAIN page.block_offset_mapping),
                         out |-> "ok"]

MoreBoundaryCalls == status = "running" /\ ncalls < MaxBoundaryCalls

\* The boundary branch of truncate_cached_blocks on the page call.res.
truncate_boundary(page, from_block_id, index_inside_block) ==
    IF contains_block(page, from_block_id)
    THEN write_null_from(make_block_readable_to(page, from_block_id, index_inside_block - 1),
                         from_block_id, index_inside_block)
    ELSE page

PageTruncateBoundary(index_inside_block) ==
    /\ MoreBoundaryCalls
    /\ ncalls' = ncalls + 1
    /\ call' = [call EXCEPT !.op = "truncate_boundary",
                            !.arg.index = index_inside_block,
                            !.res = truncate_boundary(@, call.arg.block, index_inside_block)]
    /\ UNCHANGED <<config, engine, file_inode_mapping, contents, files, status, threads, faults>>

\* truncate_cached_blocks for the owner's block, with the page the item
\* records for it.
TruncateCachedBlocks(index_inside_block) ==
    /\ MoreBoundaryCalls
    /\ ncalls' = ncalls + 1
    /\ engine' = truncate_cached_blocks(
                     engine, call.cid,
                     (call.arg.block :> get_page_id(contents[call.cid].data, call.arg.block)),
                     <<call.arg.block>>, call.arg.block, index_inside_block,
                     config.apply_lru_eviction)
    /\ call' = [call EXCEPT !.op = "truncate_cached_blocks", !.arg.index = index_inside_block]
    /\ UNCHANGED <<config, file_inode_mapping, contents, files, status, threads, faults>>

NextBoundary ==
    \/ \E k \in 1..(io_block_size - 1) : PageTruncateBoundary(k)
    \/ \E k \in 0..(io_block_size - 1) : TruncateCachedBlocks(k)

SpecBoundary == InitBoundary /\ [][NextBoundary]_vars

\* Page after is page before with block b kept, readable to k - 1, and exactly
\* the bytes [lo + k, lo + io_block_size) of its slot zeroed.
BoundaryTruncated(before, after, b, k) ==
    LET lo == get_block_offsets(before, b)[1] IN
    /\ contains_block(after, b)
    /\ get_block_offsets(after, b) = get_block_offsets(before, b)
    /\ b \in DOMAIN after.block_readable_to
    /\ get_readable_to(after, b) = k - 1
    /\ after.data = [i \in 1..Len(before.data) |->
                       IF i - 1 >= lo + k /\ i - 1 < lo + io_block_size
                       THEN 0 ELSE before.data[i]]

C32_FirstSlot ==
    [][(/\ call'.op = "truncate_boundary"
        /\ get_block_offsets(call.res, call.arg.block)[1] = 0)
       => BoundaryTruncated(call.res, call'.res, call.arg.block, call'.arg.index)]_vars

\* In another slot no byte is zeroed.
C32_OtherSlotKeepsBytes ==
    [][(/\ call'.op = "truncate_boundary"
        /\ get_block_offsets(call.res, call.arg.block)[1] > 0)
       => call'.res.data = call.res.data]_vars

\* truncate_cached_blocks leaves the engine as it was.
C32_EngineUnchanged ==
    [][call'.op = "truncate_cached_blocks" => engine' = engine]_vars

(***************************************************************************)
(* remove_cached_blocks, as Cache::remove_cached_item calls it.            *)
(***************************************************************************)
OwnerForgotten(e, owner) ==
    /\ owner \notin DOMAIN e.owner_pages_mapping
    /\ owner \notin DOMAIN e.owner_ordered_pages_mapping
    /\ owner \notin DOMAIN e.owner_free_pages_mapping

\* The LRU queue without the pages of S.
LruWithout(e, S) == SelectSeq(e.lru_main_vector, LAMBDA p : p \notin S)

\* The pages the owner held are reset, free and out of the LRU structures.
PagesReleased(before, after, owner) ==
    \A p \in OwnedPages(before, owner) :
       /\ p \in DOMAIN after.search_index
       /\ after.search_index[p] = NewPage
       /\ InFreePages(after, p)
       /\ LruCount(after, p) = 0
       /\ p \notin DOMAIN after.page_order_mapping

\* The other owners keep their maps, their pages and their LRU positions.
OthersUntouched(before, after, owner) ==
    /\ \A o \in (DOMAIN before.owner_pages_mapping) \ {owner} :
          /\ o \in DOMAIN after.owner_pages_mapping
          /\ after.owner_pages_mapping[o] = before.owner_pages_mapping[o]
    /\ \A o \in (DOMAIN before.owner_ordered_pages_mapping) \ {owner} :
          /\ o \in DOMAIN after.owner_ordered_pages_mapping
          /\ after.owner_ordered_pages_mapping[o] = before.owner_ordered_pages_mapping[o]
    /\ LruWithout(after, OwnedPages(before, owner)) = LruWithout(before, OwnedPages(before, owner))
    /\ \A p \in (DOMAIN before.page_order_mapping) \ OwnedPages(before, owner) :
          /\ p \in DOMAIN after.page_order_mapping
          /\ after.page_order_mapping[p] = before.page_order_mapping[p]

RemovedBlocksOf(owner) ==
    /\ call'.op = "remove_cached_item" /\ call'.out = "ok" /\ call'.cid = owner
    /\ owner \in DOMAIN contents

C33_OwnerForgotten ==
    [][\A owner \in Owners :
         RemovedBlocksOf(owner) =>
           /\ OwnerForgotten(engine', owner)
           /\ \A p \in OwnedPages(engine, owner) :
                InFreePages(engine', p) /\ engine'.search_index[p] = NewPage]_vars

(***************************************************************************)
(* rename_owner_pages, called on the engine between puts and removes.      *)
(***************************************************************************)
RenameOwnerPages(old_owner, new_owner) ==
    /\ Running
    /\ LET r == rename_owner_pages(engine, old_owner, new_owner)
       IN /\ engine' = r.e
          /\ Returns("rename_owner_pages", old_owner, [new_owner |-> new_owner], r.res, r.out)
    /\ UNCHANGED <<config, file_inode_mapping, contents, files>>

NextRename ==
    \/ \E cid \in Owners, blocks \in PoolPutArgs, t \in {"OpWrite", "OpRead"} :
         PutDataBlocks(cid, blocks, t)
    \/ \E cid \in Owners, path \in Paths, c \in BOOLEAN : RemoveCachedItem(cid, path, c)
    \/ \E old_owner \in Owners, new_owner \in Owners : RenameOwnerPages(old_owner, new_owner)

SpecRename == InitPool /\ [][NextRename]_vars

RenamedFrom(old_owner) ==
    /\ call'.op = "rename_owner_pages" /\ call'.cid = old_owner
    /\ call'.arg.new_owner # old_owner

\* The three owner maps of old_owner are new_owner's, and old_owner has none.
MapsMoved(before, after, old_owner, new_owner) ==
    /\ OwnerForgotten(after, old_owner)
    /\ new_owner \in DOMAIN after.owner_pages_mapping
    /\ after.owner_pages_mapping[new_owner] = before.owner_pages_mapping[old_owner]
    /\ new_owner \in DOMAIN after.owner_free_pages_mapping
    /\ after.owner_free_pages_mapping[new_owner] = before.owner_free_pages_mapping[old_owner]
    /\ new_owner \in DOMAIN after.owner_ordered_pages_mapping
    /\ after.owner_ordered_pages_mapping[new_owner] = before.owner_ordered_pages_mapping[old_owner]

\* Every page old_owner held, in the pool and in the copies of the owner
\* index, is owned by new_owner.
PagesReparented(before, after, old_owner, new_owner) ==
    /\ \A p \in OwnedPages(before, old_owner) :
          p \in DOMAIN after.search_index => is_page_owner(after.search_index[p], new_owner)
    /\ new_owner \in DOMAIN after.owner_ordered_pages_mapping
    /\ \A b \in DOMAIN after.owner_ordered_pages_mapping[new_owner] :
          is_page_owner(after.owner_ordered_pages_mapping[new_owner][b][2], new_owner)

C34_MapsMoved ==
    [][\A old_owner \in Owners :
         RenamedFrom(old_owner) =>
           IF old_owner \notin DOMAIN engine.owner_pages_mapping
           THEN call'.out = "ok" /\ call'.res = FALSE /\ engine' = engine
           ELSE /\ call'.out = "ok" /\ call'.res = TRUE
                /\ MapsMoved(engine, engine', old_owner, call'.arg.new_owner)]_vars

\* No page changes owner in a rename.
C34_NoPageReparented ==
    [][call'.op = "rename_owner_pages" =>
         /\ engine'.search_index = engine.search_index
         /\ \A o \in DOMAIN engine'.owner_ordered_pages_mapping :
              \A b \in DOMAIN engine'.owner_ordered_pages_mapping[o] :
                 \E o0 \in DOMAIN engine.owner_ordered_pages_mapping :
                    /\ b \in DOMAIN engine.owner_ordered_pages_mapping[o0]
                    /\ engine'.owner_ordered_pages_mapping[o][b]
                         = engine.owner_ordered_pages_mapping[o0][b]]_vars

(***************************************************************************)
(* The engine's own lock.  Every PageCacheEngine method of                 *)
(* CustomCacheEngine takes the RwLock `data` first and keeps the guard     *)
(* until it returns.  Two threads call the methods; a call is a sequence   *)
(* of steps, threads[t].pc the step it is at.  While a sync_pages is       *)
(* between its steps, call.res is what it has still to write.              *)
(***************************************************************************)
MaxEngineCalls == 2

\* The methods that take data.write().
EngineWriteOps ==
    {"allocate_blocks", "get_blocks", "truncate_cached_blocks", "remove_cached_blocks",
     "rename_owner_pages"}

\* sync_pages with the guard dropped once the dirty pages are collected.
sync_pages_steps_early_drop == <<"lock", "collect", "unlock", "write", "set_len">>

\* sync_pages: data.write(), the open and the loop that collects the dirty
\* pages and clears their flags, the seeks and writes, set_len, and the guard
\* dropped at the return.
sync_pages_steps == <<"lock", "collect", "write", "set_len", "unlock">>

EngineSteps(op) ==
    IF op = "sync_pages" THEN sync_pages_steps ELSE <<"lock", "apply", "unlock">>

EngineAt(t, step) ==
    /\ threads[t].state = "run"
    /\ threads[t].op \in EngineWriteOps \cup {"sync_pages"}
    /\ threads[t].pc <= Len(EngineSteps(threads[t].op))
    /\ EngineSteps(threads[t].op)[threads[t].pc] = step

\* A writer panicked with the guard: the lock is poisoned, write() answers Err.
Poisoned == \E u \in Threads : threads[u].state = "panic"

DataGuard == [lock |-> "data", mode |-> "w"]

EngineInit ==
    /\ config \in [apply_lru_eviction : BOOLEAN]
    /\ \E bs \in {{0}, {0, 1}} : \E m \in {x \in OrderedMapsOver(bs) : \A b \in bs : x[b][1] = b} :
         engine = [PoolEngine EXCEPT
                     !.free_pages = << >>,
                     !.owner_pages_mapping = (SyncOwnerId :> {m[b][1] : b \in DOMAIN m}),
                     !.owner_free_pages_mapping = (SyncOwnerId :> << >>),
                     !.owner_ordered_pages_mapping = (SyncOwnerId :> m)]
    /\ file_inode_mapping = EmptyMap
    /\ contents = EmptyMap
    /\ files = InitialFiles
    /\ status = "running"
    /\ call = NoCall
    /\ ncalls = 0
    /\ threads = IdleThreads
    /\ faults = EmptyMap

EngineStartCall(t, op) ==
    /\ ~InCall(t)
    /\ ncalls < MaxEngineCalls
    /\ ncalls' = ncalls + 1
    /\ threads' = [threads EXCEPT ![t] = [IdleThread EXCEPT !.op = op]]
    /\ UNCHANGED <<config, engine, file_inode_mapping, contents, files, status, call, faults>>

\* data.write(): granted when no thread holds the guard; Err, and the method
\* returns, when the lock is poisoned.
EngineLock(t) ==
    /\ EngineAt(t, "lock")
    /\ \A u \in Threads \ {t} : ~Holds(u, "data")
    /\ threads' = [threads EXCEPT
                     ![t] = IF Poisoned THEN IdleThread
                            ELSE [@ EXCEPT !.held = Append(@, DataGuard), !.pc = @ + 1]]
    /\ UNCHANGED <<config, engine, file_inode_mapping, contents, files, status, call, ncalls, faults>>

\* The guard is dropped.
EngineUnlock(t) ==
    /\ EngineAt(t, "unlock")
    /\ threads' = [threads EXCEPT ![t].held = << >>, ![t].pc = @ + 1]
    /\ UNCHANGED <<config, engine, file_inode_mapping, contents, files, status, call, ncalls, faults>>

EngineReturn(t) ==
    /\ threads[t].state = "run"
    /\ threads[t].op \in EngineWriteOps \cup {"sync_pages"}
    /\ threads[t].pc > Len(EngineSteps(threads[t].op))
    /\ threads' = [threads EXCEPT ![t] = IdleThread]
    /\ UNCHANGED <<config, engine, file_inode_mapping, contents, files, status, call, ncalls, faults>>

\* sync_pages up to the first seek: the dirty flags are cleared; with nothing
\* dirty the unwrap panics and the guard is dropped in the unwinding.
SyncCollect(t) ==
    /\ EngineAt(t, "collect")
    /\ \E order1 \in Orders(DOMAIN OwnerOrdered(engine, SyncOwnerId)) :
       \E order2 \in Orders(DirtyIndexes(OwnerOrdered(engine, SyncOwnerId), order1)) :
         LET r == sync_pages(engine, files, SyncOwnerId, (MaxSyncBlock + 1) * io_block_size,
                             SyncPath, order1, order2)
         IN /\ engine' = r.e
            /\ call' = [op |-> "sync_pages", cid |-> t, arg |-> << >>, res |-> r, out |-> r.out]
            /\ threads' = [threads EXCEPT
                             ![t] = IF r.out = "panic" /\ r.writes = << >>
                                    THEN [@ EXCEPT !.state = "panic", !.held = << >>]
                                    ELSE IF r.out = "err" THEN IdleThread
                                    ELSE [@ EXCEPT !.pc = @ + 1]]
    /\ UNCHANGED <<config, file_inode_mapping, contents, files, status, ncalls, faults>>

\* The seeks and writes of the runs.
SyncWrite(t) ==
    /\ EngineAt(t, "write")
    /\ files' = [files EXCEPT ![SyncPath] =
                   FileOf(WritesApplied(files[SyncPath].bytes, call.res.writes))]
    /\ threads' = [threads EXCEPT
                     ![t] = IF call.res.out = "panic"
                            THEN [@ EXCEPT !.state = "panic", !.held = << >>]
                            ELSE [@ EXCEPT !.pc = @ + 1]]
    /\ UNCHANGED <<config, engine, file_inode_mapping, contents, status, call, ncalls, faults>>

\* fd.set_len(size)
SyncSetLen(t) ==
    /\ EngineAt(t, "set_len")
    /\ files' = [files EXCEPT ![SyncPath] =
                   FileOf(SetLen(files[SyncPath].bytes, (MaxSyncBlock + 1) * io_block_size))]
    /\ threads' = [threads EXCEPT ![t].pc = @ + 1]
    /\ UNCHANGED <<config, engine, file_inode_mapping, contents, status, call, ncalls, faults>>

\* What one of the other methods does to the engine and the files.
EngineApplied(op, e, fs, owner, other, b, apply_lru_eviction) ==
    CASE op = "allocate_blocks" ->
           LET al == allocate_blocks(e, fs, owner, (b :> <<-1, <<1>>, 0>>), <<b>>, TRUE,
                                     apply_lru_eviction)
           IN [e |-> al.e, fs |-> al.fs]
      [] op = "get_blocks" ->
           [e |-> get_blocks(e, owner, (b :> <<0, Zeros(io_block_size), io_block_size - 1>>),
                             <<b>>, apply_lru_eviction).e,
            fs |-> fs]
      [] op = "truncate_cached_blocks" ->
           [e |-> truncate_cached_blocks(e, owner, (b :> 0), <<b>>, b, 0, apply_lru_eviction),
            fs |-> fs]
      [] op = "remove_cached_blocks" ->
           [e |-> remove_cached_blocks(e, owner,
                                       CHOOSE order \in OwnerPageOrders(e, owner) : TRUE,
                                       apply_lru_eviction),
            fs |-> fs]
      [] op = "rename_owner_pages" -> [e |-> rename_owner_pages(e, owner, other).e, fs |-> fs]

EngineApply(t) ==
    /\ EngineAt(t, "apply")
    /\ \E owner \in Inodes, other \in Inodes, b \in Blocks :
         LET r == EngineApplied(threads[t].op, engine, files, owner, other, b,
                                config.apply_lru_eviction)
         IN engine' = r.e /\ files' = r.fs
    /\ threads' = [threads EXCEPT ![t].pc = @ + 1]
    /\ UNCHANGED <<config, file_inode_mapping, contents, status, call, ncalls, faults>>

NextEngineLock ==
    \/ \E t \in Threads, op \in EngineWriteOps \cup {"sync_pages"} : EngineStartCall(t, op)
    \/ \E t \in Threads : EngineLock(t)
    \/ \E t \in Threads : SyncCollect(t)
    \/ \E t \in Threads : SyncWrite(t)
    \/ \E t \in Threads : SyncSetLen(t)
    \/ \E t \in Threads : EngineApply(t)
    \/ \E t \in Threads : EngineUnlock(t)
    \/ \E t \in Threads : EngineReturn(t)

SpecEngineLock == EngineInit /\ [][NextEngineLock]_vars

\* The thread is in sync_pages, with the collecting, the writes or set_len
\* still to do.
InSyncPages(t) ==
    EngineAt(t, "collect") \/ EngineAt(t, "write") \/ EngineAt(t, "set_len")

\* C35: while a thread is in sync_pages, from the collecting of the dirty
\* blocks until set_len is done, no step of another thread changes the engine
\* or the files or gives that thread the guard of the engine's lock.
C35_SyncPagesAtomic ==
    [][\A t \in Threads : \A u \in Threads \ {t} :
         (InSyncPages(t) /\ threads'[u] # threads[u]) =>
           /\ engine' = engine
           /\ files' = files
           /\ ~Holds(u, "data")
           /\ threads'[u].held = << >>]_vars

\* A sync_pages that has made its writes and not yet set_len, while the other
\* thread, in a method that changes the engine, waits for the lock.
C35_Witness ==
    \E t \in Threads : \E u \in Threads \ {t} :
       /\ EngineAt(t, "set_len")
       /\ call.res.writes # << >>
       /\ EngineAt(u, "lock")
       /\ threads[u].op \in {"remove_cached_blocks", "rename_owner_pages", "allocate_blocks"}

(***************************************************************************)
(* The free list.                                                          *)
(***************************************************************************)
\* get_engine_usage: cache_nr_pages - free_pages.len() in usize, which
\* underflows with more free entries than pages: a panic where overflow is
\* checked, a wrapped value where it is not.
get_engine_usage(e) ==
    IF Len(e.free_pages) > cache_nr_pages
    THEN {[out |-> "panic", usage |-> 0], [out |-> "wrapped", usage |-> 0]}
    ELSE {[out |-> "ok",
           usage |-> ((cache_nr_pages - Len(e.free_pages)) * 100) \div cache_nr_pages]}

FreeCount(e, p) == Cardinality({i \in 1..Len(e.free_pages) : e.free_pages[i] = p})

C36_FreePagesBlank ==
    \A p \in PageIds :
       InFreePages(engine, p) =>
         /\ get_page_owner(engine.search_index[p]) = NoOwner
         /\ DOMAIN engine.search_index[p].block_offset_mapping = {}

(***************************************************************************)
(* A call that asks for a lock it holds.                                   *)
(***************************************************************************)
\* The thread is about to ask for a lock it holds itself, in a mode that
\* cannot be granted beside the guard it has.
AsksHeldLock(t) ==
    /\ Requesting(t)
    /\ SelfConflict(t, NextStep(t).lock, NextStep(t).mode)

\* The calls whose lock sequence asks for a held lock.
SelfLockingOps ==
    {"sync_owner", "full_checkpoint", "insert_inode_mapping", "rename_item", "clear_cache",
     "get_data_blocks"}

\* C37: a Cache call made by one thread, with no other thread in a call, never
\* asks for a lock it already holds in a conflicting mode, and is never left
\* blocked or panicked on its own guard.
C37_NoSelfDeadlock ==
    \A t \in Threads :
       (\A u \in Threads \ {t} : ~InCall(u)) =>
         /\ ~AsksHeldLock(t)
         /\ threads[t].state = "run"

\* The part of C37 the code keeps: the other calls never ask for a lock they
\* hold.
C37_OtherCallsReturn ==
    \A t \in Threads :
       threads[t].op \notin SelfLockingOps =>
         /\ ~AsksHeldLock(t)
         /\ threads[t].state = "run"

\* None of the six calls reaches its return.
C37_SelfLockingNeverReturn ==
    \A t \in Threads :
       threads[t].op \in SelfLockingOps => (threads[t].state # "run" \/ AtStep(t))

(***************************************************************************)
(* Two threads in Cache::remove_cached_item for the same inode, step by    *)
(* step.  call.cid is the inode, call.res what each thread's call has      *)
(* answered so far: "none", "true", "false", "err" or "panic".             *)
(***************************************************************************)
\* has_content_cached with its read guards taken and dropped, inner.write(),
\* remove_cached_item_inner, and remove_cached_blocks under engine.write().
remove_cached_item_steps == <<"check", "lock", "inner", "engine">>

RemoveAt_(t, step) ==
    /\ threads[t].state = "run"
    /\ threads[t].op = "remove_cached_item"
    /\ threads[t].pc <= Len(remove_cached_item_steps)
    /\ remove_cached_item_steps[threads[t].pc] = step

InitRemoveRace ==
    /\ config \in [apply_lru_eviction : BOOLEAN]
    /\ engine = NewEngine
    /\ files = InitialFiles
    /\ status = "running"
    /\ ncalls = 0
    /\ faults = EmptyMap
    /\ threads = [t \in Threads |-> [IdleThread EXCEPT !.op = "remove_cached_item"]]
    /\ \E owner \in Inodes, nlinks \in 1..MaxNlinks, mapped \in SUBSET Paths :
         /\ contents = (owner :> [DefaultItem EXCEPT !.metadata.nlinks = nlinks])
         /\ file_inode_mapping = [p \in mapped |-> owner]
         /\ call = [op |-> "remove_cached_item", cid |-> owner, arg |-> << >>,
                    res |-> [t \in Threads |-> "none"], out |-> "ok"]

\* The thread's call ends with the answer given, its guards dropped.
RemoveEnds(t, answer) ==
    /\ threads' = [threads EXCEPT
                     ![t] = [@ EXCEPT !.pc = Len(remove_cached_item_steps) + 1,
                                      !.held = << >>,
                                      !.state = IF answer = "panic" THEN "panic" ELSE "run"]]
    /\ call' = [call EXCEPT !.res[t] = answer]

\* has_content_cached: Ok(false) ends the call.
RemoveCheck(t) ==
    /\ RemoveAt_(t, "check")
    /\ \A u \in Threads \ {t} : ~Holds(u, "inner")
    /\ IF Poisoned THEN RemoveEnds(t, "err")
       ELSE IF call.cid \notin DOMAIN contents THEN RemoveEnds(t, "false")
       ELSE /\ threads' = [threads EXCEPT ![t].pc = @ + 1]
            /\ UNCHANGED call
    /\ UNCHANGED <<config, engine, file_inode_mapping, contents, files, status, ncalls, faults>>

\* inner.write()
RemoveLock(t) ==
    /\ RemoveAt_(t, "lock")
    /\ \A u \in Threads \ {t} : ~Holds(u, "inner")
    /\ IF Poisoned THEN RemoveEnds(t, "err")
       ELSE /\ threads' = [threads EXCEPT
                             ![t].held = Append(@, [lock |-> "inner", mode |-> "w"]),
                             ![t].pc = @ + 1]
            /\ UNCHANGED call
    /\ UNCHANGED <<config, engine, file_inode_mapping, contents, files, status, ncalls, faults>>

\* remove_cached_item_inner: the path is unmapped first; contents.get(owner)
\* .unwrap() panics when the item is gone.
RemoveInner(t, path, is_from_cache) ==
    /\ RemoveAt_(t, "inner")
    /\ IF call.cid \notin DOMAIN contents
       THEN /\ file_inode_mapping' = MapDel(file_inode_mapping, path)
            /\ UNCHANGED contents
            /\ RemoveEnds(t, "panic")
       ELSE LET r == remove_cached_item_inner(file_inode_mapping, contents, call.cid, path,
                                              is_from_cache)
            IN /\ file_inode_mapping' = r.fim
               /\ contents' = r.contents
               /\ threads' = [threads EXCEPT ![t].pc = @ + 1]
               /\ UNCHANGED call
    /\ UNCHANGED <<config, engine, files, status, ncalls, faults>>

\* engine.write(), remove_cached_blocks, Ok(true)
RemoveBlocks(t) ==
    /\ RemoveAt_(t, "engine")
    /\ \E order \in OwnerPageOrders(engine, call.cid) :
         engine' = remove_cached_blocks(engine, call.cid, order, config.apply_lru_eviction)
    /\ RemoveEnds(t, "true")
    /\ UNCHANGED <<config, file_inode_mapping, contents, files, status, ncalls, faults>>

NextRemoveRace ==
    \/ \E t \in Threads : RemoveCheck(t)
    \/ \E t \in Threads : RemoveLock(t)
    \/ \E t \in Threads, path \in Paths, is_from_cache \in BOOLEAN :
         RemoveInner(t, path, is_from_cache)
    \/ \E t \in Threads : RemoveBlocks(t)

SpecRemoveRace == InitRemoveRace /\ [][NextRemoveRace]_vars

\* C38: of two concurrent remove_cached_item calls for one inode, both return
\* normally, and once the item is dropped and both have returned, one has
\* answered true and the other false.
C38_RemoveRace ==
    /\ \A t \in Threads : call.res[t] \in {"none", "true", "false"}
    /\ (/\ \A t \in Threads : call.res[t] # "none"
        /\ call.cid \notin DOMAIN contents)
       => \E t \in Threads : \E u \in Threads \ {t} :
             call.res[t] = "true" /\ call.res[u] = "false"

\* The part of C38 the code keeps: a call that makes its check after the item
\* was dropped answers false, and no call answers an error.
C38_LateCheckAnswersFalse ==
    [][\A t \in Threads :
         (RemoveAt_(t, "check") /\ threads'[t] # threads[t]
          /\ call.cid \notin DOMAIN contents /\ ~Poisoned)
         => call'.res[t] = "false"]_vars

\* A call that passed its check ends in a panic exactly when it finds the
\* item gone.
C38_PanicsWhenGone ==
    [][\A t \in Threads :
         (RemoveAt_(t, "inner") /\ threads'[t] # threads[t])
         => (call'.res[t] = "panic" <=> call.cid \notin DOMAIN contents)]_vars

(***************************************************************************)
(* The owner index and the pages.  An entry of owner_ordered_pages_mapping *)
(* is <<page id, page, offsets, flag>>.                                    *)
(***************************************************************************)
OrderedOf(e, owner) ==
    IF owner \in DOMAIN e.owner_ordered_pages_mapping
    THEN e.owner_ordered_pages_mapping[owner] ELSE EmptyMap

C39_IndexKeeps ==
    \A o \in DOMAIN engine.owner_ordered_pages_mapping :
      \A b \in DOMAIN OrderedOf(engine, o) :
        LET entry == OrderedOf(engine, o)[b] IN
        /\ entry[1] \in DOMAIN engine.search_index
        /\ entry[1] \in OwnedPages(engine, o)
        /\ is_page_owner(entry[2], o)
        /\ \E s \in 0..(SlotsPerPage - 1) :
             entry[3] = <<s * io_block_size, (s + 1) * io_block_size - 1>>

\* The page of the pool an entry names is never the owner's and never holds
\* the block.
C39_PoolPageBlank ==
    \A o \in DOMAIN engine.owner_ordered_pages_mapping :
      \A b \in DOMAIN OrderedOf(engine, o) :
        engine.search_index[OrderedOf(engine, o)[b][1]] = NewPage

(***************************************************************************)
(* rename_item and the paths of an inode.                                  *)
(***************************************************************************)
\* The paths find_files_mapped_to_inode lists for an inode.
PathsMappedTo(fim, inode) == {p \in DOMAIN fim : fim[p] = inode}

\* What the block of rename_item under its second file_inode_mapping.write()
\* does to the mapping: remove(new_cid), insert(new_cid, inode).  old_cid is
\* not removed.
rename_item_mapping(fim, old_cid, new_cid) ==
    MapPut(MapDel(fim, new_cid), new_cid, fim[old_cid])

\* C40: after rename_item(old_path, new_path) with old_path mapped to inode I
\* and old_path # new_path, the call has returned, old_path is no key of
\* file_inode_mapping, the paths mapped to I contain new_path and not
\* old_path, and they are no more than before.
C40_RenameMovesPath ==
    [][(/\ call'.op = "rename_item"
        /\ call'.arg[1] \in DOMAIN file_inode_mapping
        /\ call'.arg[1] # call'.arg[2])
       => LET I == file_inode_mapping[call'.arg[1]] IN
          /\ call'.out = "ok"
          /\ call'.arg[1] \notin DOMAIN file_inode_mapping'
          /\ call'.arg[2] \in PathsMappedTo(file_inode_mapping', I)
          /\ call'.arg[1] \notin PathsMappedTo(file_inode_mapping', I)
          /\ Cardinality(PathsMappedTo(file_inode_mapping', I))
               <= Cardinality(PathsMappedTo(file_inode_mapping, I))]_vars

\* What the code does instead: for a mapped old_path the call does not
\* return and the mapping is as it was; for an unmapped one it returns
\* Ok(true) with the mapping as it was.
C40_RenameLeavesMapping ==
    [][call'.op = "rename_item"
       => /\ file_inode_mapping' = file_inode_mapping
          /\ IF call'.arg[1] \in DOMAIN file_inode_mapping
             THEN call'.out \in Relock
             ELSE call'.out = "ok" /\ call'.res = TRUE]_vars

\* The block the call cannot reach would map new_path to I and keep old_path:
\* the paths of I would not lose old_path and would not shrink.
C40_BlockKeepsOldPath ==
    \A p \in DOMAIN file_inode_mapping : \A q \in Paths \ {p} :
      LET I == file_inode_mapping[p]
          after == rename_item_mapping(file_inode_mapping, p, q)
      IN /\ p \in PathsMappedTo(after, I)
         /\ q \in PathsMappedTo(after, I)
         /\ PathsMappedTo(after, I) = PathsMappedTo(file_inode_mapping, I) \cup {q}

====
